---------------------------- MODULE Spec2Model ----------------------------
(***************************************************************************)
(* Post publishing pipeline of lakamlearn: the handleSave handlers of the  *)
(* write pages, DatabaseService.createPost / getAllPosts with the          *)
(* memoized query cache, StorageManager.uploadPostImage, and the posts     *)
(* table (unique slug, check constraints, row-level security).             *)
(* Also the upload services (UploadService, LightweightUploadService,     *)
(* StorageManager.uploadAvatar) against the "images" bucket, and           *)
(* generateSlug / validateSlug on their own.                               *)
(*                                                                         *)
(* Strings of the program are sequences of one-character strings, so that  *)
(* trim, generateSlug and the "-n" suffix are computed, not assumed.       *)
(* Every await of the code is a separate step: the handler runs            *)
(* synchronously up to its next await, and the reply of the awaited call   *)
(* is the next action of that session.                                     *)
(***************************************************************************)
EXTENDS Integers, Sequences, FiniteSets, TLC

VARIABLES
    posts,      \* the posts table, in insertion (created_at) order
    objects,    \* keys of the objects held by the "images" storage bucket
    cache,      \* DatabaseService.cache: a Map, kept in insertion order
    now,        \* Date.now(), in minutes
    sess,       \* per browser session: the running handler's locals
    log,        \* per session: the side effects the running call has issued
    cacheOp,    \* the last direct cache operation and what it returned
    up,         \* per upload call: the locals of uploadImage / uploadAvatar
    bucket,     \* the "images" bucket with its contents, in creation order
    titleIn,    \* a title handed to generateSlug on its own
    slugOut,    \* what generateSlug has returned for it, call after call
    excerptIn,  \* a content and a maxLength handed to extractExcerpt
    excerptOut, \* what extractExcerpt has returned for them
    editor,     \* the write page: its content and excerpt fields, its save
    likes,      \* the likes table
    tog,        \* per toggleLike call: its locals
    dash        \* per dashboard: the running handler's locals

vars == <<posts, objects, cache, now, sess, log, cacheOp,
          up, bucket, titleIn, slugOut,
          excerptIn, excerptOut, editor, likes, tog, dash>>

\* the state of the upload services and of the slug helper
libVars == <<up, bucket, titleIn, slugOut>>

\* the state of the excerpt helper, of the editor, of the likes and of the
\* dashboard
pageVars == <<excerptIn, excerptOut, editor, likes, tog, dash>>

-----------------------------------------------------------------------------
(* Bounds of the model *)

\* the clock stops here
MaxTime == 4
\* no handler is started once the table holds this many rows
MaxPosts == 2
\* The cap of the cache map.  The code uses 100 (DatabaseService) and 50
\* (OptimizedDatabaseService); setCachedData does not depend on the value,
\* and the model runs it with a cap small enough to be exceeded.
CacheCap == 2
\* no upload is started once the bucket holds this many objects
MaxObjects == 2
\* the longest title handed to generateSlug on its own
MaxTitleChars == 4
\* the clock of the upload services stops here
MaxUploadTime == 1

-----------------------------------------------------------------------------
(* Program constants *)

\* CACHE_TTL = 3 * 60 * 1000 ms, in minutes
CACHE_TTL == 3
\* 5 * 1024 * 1024 bytes
MaxFileSize == 5242880
\* validateForm: "Title must be less than 200 characters"
MaxTitleLen == 200
\* validateForm of write/page.tsx: "Content must be at least 100 characters"
MinContentLenWrite == 100
\* validateForm of the second write page: at least 50 characters
MinContentLenEdit == 50
\* posts.slug CHECK (length(slug) <= 100)
MaxSlugLen == 100
\* LightweightUploadService.MAX_SIZE = 3 * 1024 * 1024 bytes
LightMaxSize == 3145728
\* quickCompress skips files under 1024 * 1024 bytes
CompressThreshold == 1048576
\* UploadService.cleanupOldFiles keeps the 5 newest files of a folder
KeepFull == 5
\* LightweightUploadService.cleanupOldFiles keeps the 3 newest
KeepLight == 3
\* the limit of the cleanup listings: 20 and 10 entries
ListLimitFull == 20
ListLimitLight == 10
\* the limit of the listing of deleteOldAvatars
ListLimitAvatar == 100

-----------------------------------------------------------------------------
(* Strings *)

Whitespace == {" ", "\t", "\n"}
LowerAlnum == {"a", "b", "x", "0", "1", "2", "3", "4", "5", "6", "7", "8", "9",
               "u", "n", "t", "i", "l", "e", "d", "p", "o", "s"}

RECURSIVE Repeat(_, _)
Repeat(ch, n) == IF n = 0 THEN <<>> ELSE <<ch>> \o Repeat(ch, n - 1)

\* String.prototype.toLowerCase, on the alphabet of the model
toLowerCase(s) ==
    [i \in 1..Len(s) |-> CASE s[i] = "A" -> "a"
                           [] s[i] = "B" -> "b"
                           [] s[i] = "X" -> "x"
                           [] OTHER -> s[i]]

RECURSIVE trimStart(_)
trimStart(s) ==
    IF s # <<>> /\ Head(s) \in Whitespace THEN trimStart(Tail(s)) ELSE s

RECURSIVE trimEnd(_)
trimEnd(s) ==
    IF s # <<>> /\ s[Len(s)] \in Whitespace
    THEN trimEnd(SubSeq(s, 1, Len(s) - 1)) ELSE s

\* String.prototype.trim
trim(s) == trimEnd(trimStart(s))

\* s.replace(/[^...]/g, ""): keep the characters of the set Keep
RemoveOutside(s, Keep) ==
    LET Kept(ch) == ch \in Keep
    IN  SelectSeq(s, Kept)

\* s.replace(/C+/g, r): every maximal run of characters of Class becomes r
\* (the last character of a run stands for the run)
CollapseRuns(s, Class, r) ==
    LET EndsRun(i) == ~(s[i] \in Class /\ i < Len(s) /\ s[i + 1] \in Class)
        ends == SelectSeq([i \in 1..Len(s) |-> i], EndsRun)
    IN  [j \in 1..Len(ends) |->
            IF s[ends[j]] \in Class THEN r ELSE s[ends[j]]]

\* s.replace(/\s/g, "-")
ReplaceEach(s, Class, r) ==
    [i \in 1..Len(s) |-> IF s[i] \in Class THEN r ELSE s[i]]

\* s.replace(/^-+/, "")
StripLeading(s, ch) ==
    LET others == {i \in 1..Len(s) : s[i] # ch}
    IN  IF others = {} THEN <<>>
        ELSE SubSeq(s, CHOOSE i \in others : \A j \in others : i <= j, Len(s))

\* s.replace(/-+$/, "")
StripTrailing(s, ch) ==
    LET others == {i \in 1..Len(s) : s[i] # ch}
    IN  IF others = {} THEN <<>>
        ELSE SubSeq(s, 1, CHOOSE i \in others : \A j \in others : j <= i)

UntitledPost == <<"u", "n", "t", "i", "t", "l", "e", "d", "-", "p", "o", "s", "t">>

generateSlugNoCollapse(title) ==
    IF title = <<>> THEN UntitledPost
    ELSE LET s1 == trim(toLowerCase(title))
             s2 == RemoveOutside(s1, LowerAlnum \cup Whitespace \cup {"-"})
             s3 == CollapseRuns(s2, Whitespace, " ")
             s4 == ReplaceEach(s3, Whitespace, "-")
             s6 == StripTrailing(StripLeading(s4, "-"), "-")
         IN  IF s6 = <<>> THEN UntitledPost ELSE s6

generateSlugCollapseFirst(title) ==
    IF title = <<>> THEN UntitledPost
    ELSE LET s1 == trim(toLowerCase(title))
             s2 == RemoveOutside(s1, LowerAlnum \cup Whitespace \cup {"-"})
             s3 == CollapseRuns(s2, Whitespace, " ")
             s4 == CollapseRuns(s3, {"-"}, "-")
             s5 == ReplaceEach(s4, Whitespace, "-")
             s6 == StripTrailing(StripLeading(s5, "-"), "-")
         IN  IF s6 = <<>> THEN UntitledPost ELSE s6

\* generateSlug(title): the chain of replace calls, in the code's order
generateSlug(title) ==
    IF title = <<>> THEN UntitledPost
    ELSE LET s1 == trim(toLowerCase(title))
             s2 == RemoveOutside(s1, LowerAlnum \cup Whitespace \cup {"-"})
             s3 == CollapseRuns(s2, Whitespace, " ")
             s4 == ReplaceEach(s3, Whitespace, "-")
             s5 == CollapseRuns(s4, {"-"}, "-")
             s6 == StripTrailing(StripLeading(s5, "-"), "-")
         IN  IF s6 = <<>> THEN UntitledPost ELSE s6

DigitChars == <<"0", "1", "2", "3", "4", "5", "6", "7", "8", "9">>

\* the decimal digits of n, as `${n}` prints them
RECURSIVE NumberToString(_)
NumberToString(n) ==
    IF n < 10 THEN <<DigitChars[n + 1]>>
    ELSE NumberToString(n \div 10) \o <<DigitChars[(n % 10) + 1]>>

\* `${originalSlug}-${counter}`
SuffixedSlug(originalSlug, counter) ==
    originalSlug \o <<"-">> \o NumberToString(counter)

-----------------------------------------------------------------------------
(* Memoized query cache (DatabaseService.cache) *)

CacheKeys(c) == {c[i].key : i \in 1..Len(c)}

CacheIndex(c, k) == CHOOSE i \in 1..Len(c) : c[i].key = k

\* Map.prototype.delete
MapDelete(c, k) ==
    IF k \in CacheKeys(c)
    THEN LET i == CacheIndex(c, k)
         IN  SubSeq(c, 1, i - 1) \o SubSeq(c, i + 1, Len(c))
    ELSE c

\* Map.prototype.set: an existing key keeps its place in the iteration order
MapSet(c, k, e) ==
    IF k \in CacheKeys(c)
    THEN [c EXCEPT ![CacheIndex(c, k)] = e]
    ELSE Append(c, e)

NoData == <<>>

getCachedDataInclusive(c, k, t) ==
    IF k \in CacheKeys(c) /\ t - c[CacheIndex(c, k)].timestamp <= CACHE_TTL
    THEN [hit |-> TRUE, data |-> c[CacheIndex(c, k)].data, cache |-> c]
    ELSE [hit |-> FALSE, data |-> NoData, cache |-> MapDelete(c, k)]

\* getCachedData(key) at time t: what it returns, and the map it leaves
getCachedData(c, k, t) ==
    IF k \in CacheKeys(c) /\ t - c[CacheIndex(c, k)].timestamp < CACHE_TTL
    THEN [hit |-> TRUE, data |-> c[CacheIndex(c, k)].data, cache |-> c]
    ELSE [hit |-> FALSE, data |-> NoData, cache |-> MapDelete(c, k)]

setCachedDataEvictNewest(c, k, d, t) ==
    LET c1 == MapSet(c, k, [key |-> k, data |-> d, timestamp |-> t])
    IN  IF Len(c1) > CacheCap THEN SubSeq(c1, 1, Len(c1) - 1) ELSE c1

setCachedDataNoEvict(c, k, d, t) ==
    MapSet(c, k, [key |-> k, data |-> d, timestamp |-> t])

\* setCachedData(key, data) at time t
setCachedData(c, k, d, t) ==
    LET c1 == MapSet(c, k, [key |-> k, data |-> d, timestamp |-> t])
    IN  IF Len(c1) > CacheCap THEN Tail(c1) ELSE c1

clearCache(c) == <<>>

\* cacheOp when the last step was no direct cache operation
NoCacheOp ==
    [op |-> "none", key |-> <<>>, hit |-> FALSE, data |-> NoData,
     had |-> FALSE, overflow |-> FALSE]


-----------------------------------------------------------------------------
(* The posts table and its policies *)

Users == {"u1", "u2"}

\* RLS: FOR SELECT USING (published = true OR auth.uid() = author_id)
Visible(post, uid) == post.published \/ post.author_id = uid

\* from("posts").select("id").eq("slug", slug), as the user uid
SelectBySlug(ps, slug, uid) ==
    {i \in 1..Len(ps) : ps[i].slug = slug /\ Visible(ps[i], uid)}

\* .single(): data is non-null only when exactly one row comes back
SingleData(rows) == Cardinality(rows) = 1

\* the mutant: every slug is reported as taken
checkSlugExistsAlways(ps, slug, uid) == TRUE

\* checkSlugExists(slug), asked by the user uid
checkSlugExists(ps, slug, uid) == SingleData(SelectBySlug(ps, slug, uid))

\* slug ~ '^[a-z0-9-]+$'
MatchesSlugPattern(slug) ==
    /\ slug # <<>>
    /\ \A i \in 1..Len(slug) : slug[i] \in LowerAlnum \cup {"-"}

\* the CHECK constraints of the posts table
ChecksHold(rec) ==
    /\ trim(rec.title) # <<>> /\ Len(rec.title) <= MaxTitleLen
    /\ trim(rec.slug) # <<>> /\ MatchesSlugPattern(rec.slug)
    /\ Len(rec.slug) <= MaxSlugLen
    /\ trim(rec.content) # <<>>

InsertOutcomeNoUnique(ps, rec, uid) ==
    IF ~ChecksHold(rec) THEN "check_violation"
    ELSE IF rec.author_id # uid THEN "rls_violation"
    ELSE "ok"

\* from("posts").insert(rec), as the user uid: what the table answers
InsertOutcome(ps, rec, uid) ==
    IF ~ChecksHold(rec) THEN "check_violation"
    ELSE IF rec.author_id # uid THEN "rls_violation"
    ELSE IF \E i \in 1..Len(ps) : ps[i].slug = rec.slug THEN "unique_violation"
    ELSE "ok"

-----------------------------------------------------------------------------
(* Inputs *)

NoFile == [type |-> "none", size |-> 0, ext |-> "none"]

Files ==
    { NoFile,
      [type |-> "image/jpeg", size |-> 1024, ext |-> "jpg"],
      [type |-> "image/png", size |-> MaxFileSize + 1, ext |-> "png"],
      [type |-> "application/pdf", size |-> 1024, ext |-> "pdf"] }

Titles == { <<" ">>, <<"A">>, <<"A", " ", "1">> }

Contents == { <<" ", "\n">>, Repeat("x", MinContentLenWrite) }

NoKey == [user |-> "none", ts |-> 0, ext |-> "none"]

\* StorageManager.isValidImageFile
isValidImageFile(file) ==
    file.type \in {"image/jpeg", "image/png", "image/gif", "image/webp"}

\* the checks uploadPostImage makes before it calls the storage
UploadAccepts(file) == isValidImageFile(file) /\ ~(file.size > MaxFileSize)

\* `${userId}/posts/post-${Date.now()}.${fileExt}`
PostImageKey(uid, t, file) == [user |-> uid, ts |-> t, ext |-> file.ext]

FormAcceptsUntrimmed(title, content) == ~(title = <<>>) /\ ~(content = <<>>)

\* first write page: !title.trim() || !content.trim()
FormAccepts(title, content) == ~(trim(title) = <<>>) /\ ~(trim(content) = <<>>)

\* validateForm of the other two write pages (minLen is 100 or 50)
validateForm(title, content, minLen) ==
    /\ ~(trim(title) = <<>>) /\ ~(Len(title) > MaxTitleLen)
    /\ ~(trim(content) = <<>>) /\ ~(Len(content) < minLen)

-----------------------------------------------------------------------------
(* Upload services: UploadService.uploadImage (svc "full"),              *)
(* LightweightUploadService.uploadImage (svc "light") and                *)
(* StorageManager.uploadAvatar (svc "avatar")                            *)

Calls == {"c1", "c2"}

Services == {"full", "light", "avatar"}

\* the purposes the calls are made for: "avatar" | "post" | "cover" in the
\* code, one of them here
UploadTypes == {"post"}

\* Math.random().toString(36).substring(2, 8), out of two values
RandomStrings == {"r1", "r2"}

NoUploadFile == [id |-> "none", type |-> "none", size |-> 0, ext |-> "none"]

\* ext is the extension of file.name
UploadFiles ==
    { [id |-> "f1", type |-> "image/jpeg", size |-> 512000, ext |-> "jpeg"],
      [id |-> "f2", type |-> "image/png", size |-> 2097152, ext |-> "png"],
      [id |-> "f3", type |-> "image/gif", size |-> 4194304, ext |-> "gif"],
      [id |-> "f4", type |-> "image/jpeg", size |-> 6291456, ext |-> "jpg"],
      [id |-> "f5", type |-> "application/pdf", size |-> 1024, ext |-> "pdf"] }

\* ALLOWED_TYPES of the three services
AllowedTypes(svc) ==
    IF svc = "light" THEN {"image/jpeg", "image/png", "image/webp"}
    ELSE {"image/jpeg", "image/png", "image/webp", "image/gif"}

validateFileTypeOnly(svc, file) ==
    IF file.type \notin AllowedTypes(svc) THEN "invalid_type" ELSE "none"

\* validateFile of each service: the error it reports, "none" for a valid file
validateFile(svc, file) ==
    CASE svc = "full" ->
           IF file.size > MaxFileSize THEN "too_large"
           ELSE IF file.type \notin AllowedTypes(svc) THEN "invalid_type"
           ELSE "none"
      [] svc = "light" ->
           IF file.size <= LightMaxSize /\ file.type \in AllowedTypes(svc)
           THEN "none" ELSE "invalid_file"
      [] svc = "avatar" ->
           IF ~isValidImageFile(file) THEN "invalid_type"
           ELSE IF file.size > MaxFileSize THEN "too_large"
           ELSE "none"

\* getFileExtension: "jpeg" becomes "jpg"
getFileExtension(file) == IF file.ext = "jpeg" THEN "jpg" ELSE file.ext

NoFileName ==
    [user |-> "none", dir |-> "none", prefix |-> "", ts |-> 0, rand |-> "",
     ext |-> "none"]

\* UploadService.generateFileName:
\* `${userId}/${type}/${timestamp}_${randomString}.${extension}`
generateFileName(userId, type, file, t, r) ==
    [user |-> userId, dir |-> type, prefix |-> "", ts |-> t, rand |-> r,
     ext |-> getFileExtension(file)]

\* LightweightUploadService: `${userId}/${type}/${Date.now()}.${ext}`
LightFileName(userId, type, file, t) ==
    [user |-> userId, dir |-> type, prefix |-> "", ts |-> t, rand |-> "",
     ext |-> getFileExtension(file)]

\* uploadAvatar: `${userId}/avatar-${Date.now()}.${fileExt}`
AvatarFileName(userId, file, t) ==
    [user |-> userId, dir |-> "", prefix |-> "avatar-", ts |-> t, rand |-> "",
     ext |-> file.ext]

NoResult == [url |-> NoFileName, error |-> "none"]

IdleUp ==
    [ pc |-> "idle", svc |-> "none", userId |-> "none", type |-> "none",
      file |-> NoUploadFile, processed |-> FALSE, fileName |-> NoFileName,
      statuses |-> <<>>, calls |-> <<>>, result |-> NoResult,
      cleanup |-> "none", filesToDelete |-> {},
      \* history, read by the properties only
      processFailed |-> FALSE ]

BucketKeys(b) == {b[i].key : i \in 1..Len(b)}

Reverse(q) == [i \in 1..Len(q) |-> q[Len(q) + 1 - i]]

Take(q, n) == SubSeq(q, 1, IF Len(q) < n THEN Len(q) ELSE n)

\* storage.list(`${userId}/${type}`, {limit, sortBy: created_at desc})
ListFolder(b, userId, dir, limit) ==
    LET InFolder(o) == o.key.user = userId /\ o.key.dir = dir
    IN  Take(Reverse(SelectSeq(b, InFolder)), limit)

\* files.slice(keep): the keys of the listing beyond its first keep entries
SliceFrom(files, keep) ==
    {files[i].key : i \in (keep + 1)..Len(files)}

\* storage.remove(filesToDelete)
RemoveObjects(b, keys) ==
    LET Stays(o) == o.key \notin keys
    IN  SelectSeq(b, Stays)

UpsertTrue(svc) == TRUE

\* the upsert option the service hands to storage.upload
Upsert(svc) == FALSE

\* storage.upload(fileName, file, {upsert}): the answers it can give
PutOutcomes(b, key, upsert) ==
    IF key \in BucketKeys(b) /\ ~upsert THEN {"duplicate"}
    ELSE {"ok", "storage_error"}

\* the bucket after a put that the storage accepted
PutObject(b, key, body) ==
    LET Stays(o) == o.key # key
    IN  Append(SelectSeq(b, Stays), [key |-> key, body |-> body])

-----------------------------------------------------------------------------
(* Sessions *)

\* one browser session per user; auth.uid() of session p is p
Procs == Users

\* no excerpt asked for, an empty editor, no like, nothing running
NoExcerptIn == [content |-> <<>>, maxLength |-> 0]

IdleEditor ==
    [ pc |-> "editing", content |-> <<>>, excerpt |-> <<>>, typed |-> FALSE,
      finalExcerpt |-> <<>> ]

IdleTog ==
    [ pc |-> "idle", userId |-> "none", postId |-> "none",
      existingLike |-> FALSE, success |-> FALSE,
      \* history, read by the properties only
      order |-> 0, likedBefore |-> FALSE, faulted |-> FALSE ]

IdleDash == [pc |-> "idle", target |-> <<>>, published |-> FALSE,
             calls |-> <<>>, result |-> "none"]

InitPages ==
    /\ excerptIn = NoExcerptIn
    /\ excerptOut = <<>>
    /\ editor = IdleEditor
    /\ likes = <<>>
    /\ tog = [c \in Calls |-> IdleTog]
    /\ dash = [p \in Users |-> IdleDash]

IdleSess ==
    [ pc |-> "idle", kind |-> "none",
      title |-> <<>>, content |-> <<>>, file |-> NoFile, published |-> FALSE,
      fileName |-> NoKey, finalCoverImageUrl |-> NoKey,
      slug |-> <<>>, originalSlug |-> <<>>, counter |-> 0,
      options |-> "none", fetched |-> <<>>,
      result |-> "none",
      \* history, read by the properties only
      blankInput |-> FALSE, disturbed |-> FALSE, firstExists |-> FALSE,
      cleared |-> 0 ]

Init ==
    /\ posts = <<>>
    /\ objects = {}
    /\ cache = <<>>
    /\ now = 0
    /\ sess = [p \in Procs |-> IdleSess]
    /\ log = [p \in Procs |-> <<>>]
    /\ cacheOp = NoCacheOp
    /\ up = [c \in Calls |-> IdleUp]
    /\ bucket = <<>>
    /\ titleIn = <<>>
    /\ slugOut = <<>>
    /\ InitPages

\* the handler returns: its locals are gone, its outcome stays to be read
Finish(s, res) ==
    [IdleSess EXCEPT !.pc = "done", !.result = res, !.kind = s.kind,
                     !.slug = s.slug, !.originalSlug = s.originalSlug,
                     !.counter = s.counter, !.published = s.published,
                     !.file = IF s.file = NoFile \/ res = "rejected"
                              THEN NoFile ELSE s.file,
                     !.options = s.options, !.fetched = s.fetched,
                     !.blankInput = s.blankInput, !.disturbed = s.disturbed,
                     !.firstExists = s.firstExists, !.cleared = s.cleared]

\* history: the title or the content of the request is blank after trimming
BlankInput(title, content) == trim(title) = <<>> \/ trim(content) = <<>>

\* let slug = generateSlug(title); let slugExists = await checkSlugExists(slug)
BeginResolve(s) ==
    [s EXCEPT !.slug = generateSlug(s.title), !.pc = "checking"]

\* the row handleSave and createPost hand to insert()
PostData(s, uid) ==
    [ title |-> trim(s.title), slug |-> s.slug, content |-> trim(s.content),
      cover_image_url |-> s.finalCoverImageUrl, author_id |-> uid,
      published |-> s.published ]

\* the columns of a stored row that the queries of the model read
StoredRow(rec) ==
    [slug |-> rec.slug, author_id |-> rec.author_id, published |-> rec.published]

\* history: the table changed while q was between its first slug query and
\* the answer to its insert
Disturb(ss, p, changed) ==
    [q \in Procs |->
        IF changed /\ q # p
           /\ ss[q].pc \in {"checking", "inserting", "cp_checking", "cp_inserting"}
        THEN [ss[q] EXCEPT !.disturbed = TRUE] ELSE ss[q]]

\* storage.upload(fileName, file, {upsert: false}): the answers it can give
StorageOutcomes(objs, key) ==
    IF key \in objs THEN {"duplicate"} ELSE {"ok", "storage_error"}

AfterUploadIgnoreError(outcome) == "resolve"

\* handleSave after uploadPostImage settles: go on, or return from the catch
AfterUpload(outcome) == IF outcome = "ok" THEN "resolve" ELSE "abort"

StartDecisionNoUpload(kind, title, content, file) ==
    IF kind = "direct"
    THEN IF ~FormAccepts(title, content) THEN "reject" ELSE "resolve"
    ELSE IF validateForm(title, content, MinContentLenEdit)
         THEN "resolve" ELSE "reject"

\* what the synchronous head of handleSave decides
StartDecision(kind, title, content, file) ==
    IF kind = "direct"
    THEN IF ~FormAccepts(title, content) THEN "reject"
         ELSE IF file = NoFile THEN "resolve"
         ELSE IF UploadAccepts(file) THEN "upload" ELSE "upload_rejected"
    ELSE IF validateForm(title, content, MinContentLenEdit)
         THEN "resolve" ELSE "reject"

\* handleSave(published) of the two pages that write to the table directly:
\* kind "direct" uploads the cover image itself, kind "edit" gets a URL from
\* the ImageUpload component and validates with validateForm.
HandleSaveDirect(p, kind, title, content, file, published) ==
    /\ sess[p].pc = "idle"
    /\ Len(posts) < MaxPosts
    /\ kind = "edit" => file = NoFile
    /\ file # NoFile => Cardinality(objects) < MaxObjects
    /\ LET s0 == [sess[p] EXCEPT !.kind = kind, !.title = title,
                                 !.content = content, !.file = file,
                                 !.published = published,
                                 !.blankInput = BlankInput(title, content)]
           d  == StartDecision(kind, title, content, file)
       IN  /\ sess' = [sess EXCEPT ![p] =
                CASE d = "reject" ->
                       Finish([s0 EXCEPT !.published = FALSE], "rejected")
                  [] d = "upload_rejected" -> Finish(s0, "upload_failed")
                  [] d = "upload" ->
                       [s0 EXCEPT !.pc = "uploading",
                                  !.fileName = PostImageKey(p, now, file)]
                  [] d = "resolve" -> BeginResolve(s0)]
           /\ log' = [log EXCEPT ![p] =
                CASE d = "upload" -> <<"upload_put">>
                  [] d = "resolve" -> <<"slug_query">>
                  [] OTHER -> <<>>]
    /\ UNCHANGED <<pageVars, libVars, posts, objects, cache, now, cacheOp>>

\* the storage answers the put of uploadPostImage
UploadReply(p) ==
    /\ sess[p].pc = "uploading"
    /\ \E outcome \in StorageOutcomes(objects, sess[p].fileName) :
          /\ objects' = IF outcome = "ok"
                        THEN objects \cup {sess[p].fileName} ELSE objects
          /\ IF AfterUpload(outcome) = "resolve"
             THEN /\ sess' = [sess EXCEPT ![p] =
                                BeginResolve(
                                  [sess[p] EXCEPT !.finalCoverImageUrl =
                                     IF outcome = "ok" THEN sess[p].fileName
                                     ELSE NoKey])]
                  /\ log' = [log EXCEPT ![p] =
                               @ \o <<IF outcome = "ok" THEN "upload_ok"
                                      ELSE "upload_failed", "slug_query">>]
             ELSE /\ sess' = [sess EXCEPT ![p] = Finish(sess[p], "upload_failed")]
                  /\ log' = [log EXCEPT ![p] = Append(@, "upload_failed")]
    /\ UNCHANGED <<pageVars, libVars, posts, cache, now, cacheOp>>

\* the table answers checkSlugExists(slug); the while loop runs to its next await
CheckSlugReply(p) ==
    /\ sess[p].pc = "checking"
    /\ LET s == sess[p]
           slugExists == checkSlugExists(posts, s.slug, p)
           original == IF s.counter = 0 THEN s.slug ELSE s.originalSlug
           first == IF s.counter = 0 THEN slugExists ELSE s.firstExists
           counter == s.counter + 1
       IN  IF slugExists
           THEN /\ sess' = [sess EXCEPT ![p] =
                              [s EXCEPT !.originalSlug = original,
                                        !.firstExists = first,
                                        !.counter = counter,
                                        !.slug = SuffixedSlug(original, counter)]]
                /\ log' = [log EXCEPT ![p] = Append(@, "slug_query")]
           ELSE /\ sess' = [sess EXCEPT ![p] =
                              [s EXCEPT !.originalSlug = original,
                                        !.firstExists = first,
                                        !.counter = counter,
                                        !.pc = "inserting"]]
                /\ log' = [log EXCEPT ![p] = Append(@, "insert")]
    /\ UNCHANGED <<pageVars, libVars, posts, objects, cache, now, cacheOp>>

\* the table answers the insert of handleSave
InsertReply(p) ==
    /\ sess[p].pc = "inserting"
    /\ LET rec == PostData(sess[p], p)
       IN  \E out \in {InsertOutcome(posts, rec, p), "network_error"} :
              /\ posts' = IF out = "ok" THEN Append(posts, StoredRow(rec))
                          ELSE posts
              /\ sess' = Disturb([sess EXCEPT ![p] = Finish(sess[p], out)],
                                 p, out = "ok")
              /\ log' = [log EXCEPT ![p] =
                           Append(@, IF out = "ok" THEN "insert_ok"
                                     ELSE "insert_failed")]
    /\ UNCHANGED <<pageVars, libVars, objects, cache, now, cacheOp>>

\* the handler has returned; the page is ready for the next click
Return(p) ==
    /\ sess[p].pc = "done"
    /\ sess' = [sess EXCEPT ![p] = IdleSess]
    /\ log' = [log EXCEPT ![p] = <<>>]
    /\ UNCHANGED <<pageVars, libVars, posts, objects, cache, now, cacheOp>>

Tick ==
    /\ now < MaxTime
    /\ now' = now + 1
    /\ cacheOp' = NoCacheOp
    /\ UNCHANGED <<pageVars, libVars, posts, objects, cache, sess, log>>

-----------------------------------------------------------------------------
(* write/page.tsx: handleSave -> DatabaseService.createPost *)

createPostIgnoresExisting(existingPost) == TRUE

\* createPost: if (existingPost) return { data: null, error: "A post with ..." }
createPostProceeds(existingPost) == ~existingPost

ClearsCacheAlways(out) == TRUE

\* createPost reaches this.clearCache() only past both error returns
ClearsCacheOn(out) == out = "ok"

\* handleSave of write/page.tsx up to the first await inside createPost;
\* thrown is an exception of createClient(), which createPost catches
HandleSaveWrite(p, title, content, published, thrown) ==
    /\ sess[p].pc = "idle"
    /\ Len(posts) < MaxPosts
    /\ LET s0 == [sess[p] EXCEPT !.kind = "write", !.title = title,
                                 !.content = content, !.published = published,
                                 !.blankInput = BlankInput(title, content)]
       IN  IF ~validateForm(title, content, MinContentLenWrite)
           THEN /\ sess' = [sess EXCEPT ![p] =
                              Finish([s0 EXCEPT !.published = FALSE], "rejected")]
                /\ log' = [log EXCEPT ![p] = <<>>]
           ELSE IF thrown
           THEN /\ sess' = [sess EXCEPT ![p] =
                              Finish([s0 EXCEPT !.slug = generateSlug(title)],
                                     "exception")]
                /\ log' = [log EXCEPT ![p] = <<>>]
           ELSE /\ sess' = [sess EXCEPT ![p] =
                              [s0 EXCEPT !.slug = generateSlug(title),
                                         !.originalSlug = generateSlug(title),
                                         !.pc = "cp_checking"]]
                /\ log' = [log EXCEPT ![p] = <<"slug_query">>]
    /\ UNCHANGED <<pageVars, libVars, posts, objects, cache, now, cacheOp>>

\* the table answers createPost's existence query
CreatePostCheckReply(p) ==
    /\ sess[p].pc = "cp_checking"
    /\ LET existingPost == checkSlugExists(posts, sess[p].slug, p)
           s == [sess[p] EXCEPT !.firstExists = existingPost, !.counter = 1]
       IN  IF createPostProceeds(existingPost)
           THEN /\ sess' = [sess EXCEPT ![p] = [s EXCEPT !.pc = "cp_inserting"]]
                /\ log' = [log EXCEPT ![p] = Append(@, "insert")]
           ELSE /\ sess' = [sess EXCEPT ![p] = Finish(s, "slug_exists")]
                /\ log' = log
    /\ UNCHANGED <<pageVars, libVars, posts, objects, cache, now, cacheOp>>

\* the table answers createPost's insert; on success the cache is cleared
\* and createPost awaits addStatsToSinglePost
CreatePostInsertReply(p) ==
    /\ sess[p].pc = "cp_inserting"
    /\ LET rec == PostData(sess[p], p)
       IN  \E out \in {InsertOutcome(posts, rec, p), "network_error"} :
              /\ posts' = IF out = "ok" THEN Append(posts, StoredRow(rec))
                          ELSE posts
              /\ cache' = IF ClearsCacheOn(out) THEN clearCache(cache) ELSE cache
              /\ sess' = Disturb([sess EXCEPT ![p] =
                                    IF out = "ok"
                                    THEN [sess[p] EXCEPT !.pc = "cp_stats",
                                                         !.cleared = Len(cache)]
                                    ELSE Finish(sess[p], out)],
                                 p, out = "ok")
              /\ log' = [log EXCEPT ![p] =
                           @ \o (IF out = "ok" THEN <<"insert_ok">>
                                 ELSE <<"insert_failed">>)
                             \o (IF ClearsCacheOn(out) THEN <<"cache_clear">>
                                 ELSE <<>>)]
    /\ UNCHANGED <<pageVars, libVars, objects, now, cacheOp>>

\* addStatsToSinglePost settles (it catches its own errors); createPost returns
CreatePostStatsReply(p) ==
    /\ sess[p].pc = "cp_stats"
    /\ sess' = [sess EXCEPT ![p] = Finish(sess[p], "ok")]
    /\ UNCHANGED <<pageVars, libVars, posts, objects, cache, now, log, cacheOp>>

-----------------------------------------------------------------------------
(* DatabaseService.getAllPosts *)

\* options.authorId, or "all" for no filter
ReadOptions == Users \cup {"all"}

\* `posts_${JSON.stringify(options)}`
PostsCacheKey(opt) == <<"posts_", opt>>

\* .eq("published", true) [.eq("author_id", authorId)]
\* .order("created_at", {ascending: false}); the rows are shown by their slugs
RECURSIVE PublishedRows(_, _)
PublishedRows(ps, opt) ==
    IF ps = <<>> THEN <<>>
    ELSE LET rest == PublishedRows(Tail(ps), opt)
             h == Head(ps)
         IN  IF h.published /\ (opt = "all" \/ h.author_id = opt)
             THEN Append(rest, h.slug) ELSE rest

\* getAllPosts(options) up to its first await
GetAllPostsStart(p, opt) ==
    /\ sess[p].pc = "idle"
    /\ LET cached == getCachedData(cache, PostsCacheKey(opt), now)
           s0 == [sess[p] EXCEPT !.kind = "reader", !.options = opt]
       IN  /\ cache' = cached.cache
           /\ sess' = [sess EXCEPT ![p] =
                         IF cached.hit
                         THEN Finish([s0 EXCEPT !.fetched = cached.data], "ok")
                         ELSE [s0 EXCEPT !.pc = "ga_query"]]
    /\ log' = [log EXCEPT ![p] = <<>>]
    /\ UNCHANGED <<pageVars, libVars, posts, objects, now, cacheOp>>

\* the table answers the list query (or fails: the method returns [])
GetAllPostsQueryReply(p) ==
    /\ sess[p].pc = "ga_query"
    /\ \E error \in BOOLEAN :
          LET rows == IF error THEN <<>> ELSE PublishedRows(posts, sess[p].options)
          IN  sess' = [sess EXCEPT ![p] =
                         IF rows = <<>> THEN Finish(sess[p], "ok")
                         ELSE [sess[p] EXCEPT !.pc = "ga_stats", !.fetched = rows]]
    /\ UNCHANGED <<pageVars, libVars, posts, objects, cache, now, log, cacheOp>>

\* addStatsToPostsBatch settles; the list is cached and returned
GetAllPostsStatsReply(p) ==
    /\ sess[p].pc = "ga_stats"
    /\ cache' = setCachedData(cache, PostsCacheKey(sess[p].options),
                              sess[p].fetched, now)
    /\ sess' = [sess EXCEPT ![p] = Finish(sess[p], "ok")]
    /\ UNCHANGED <<pageVars, libVars, posts, objects, now, log, cacheOp>>

-----------------------------------------------------------------------------
(* Direct operations on the cache, to exercise it on its own *)

CacheTestKeys == {<<"k", i>> : i \in 1..(CacheCap + 1)}
CacheTestData == {<<"v1">>, <<"v2">>}


\* cacheOp tells what the last step did to the cache, and what a get returned
CacheGet(k) ==
    /\ LET r == getCachedData(cache, k, now)
       IN  /\ cache' = r.cache
           /\ cacheOp' = [NoCacheOp EXCEPT !.op = "get", !.key = k,
                                           !.hit = r.hit, !.data = r.data,
                                           !.had = k \in CacheKeys(cache)]
    /\ UNCHANGED <<pageVars, libVars, posts, objects, now, sess, log>>

CacheSet(k, d) ==
    /\ cache' = setCachedData(cache, k, d, now)
    /\ cacheOp' = [NoCacheOp EXCEPT !.op = "set", !.key = k,
                                    !.overflow = /\ Len(cache) = CacheCap
                                                 /\ k \notin CacheKeys(cache)]
    /\ UNCHANGED <<pageVars, libVars, posts, objects, now, sess, log>>

CacheClear ==
    /\ cache' = clearCache(cache)
    /\ cacheOp' = [NoCacheOp EXCEPT !.op = "clear"]
    /\ UNCHANGED <<pageVars, libVars, posts, objects, now, sess, log>>

-----------------------------------------------------------------------------
(* Upload services: the calls *)

\* objects that earlier uploads of user u1 left in the folder u1/post
OldRandomStrings == <<"o1", "o2", "o3", "o4", "o5">>

OldObjects ==
    [i \in 1..Len(OldRandomStrings) |->
        [key |-> generateFileName("u1", "post", [ext |-> "jpg"], 0,
                                  OldRandomStrings[i]),
         body |-> [id |-> "f0", processed |-> TRUE]]]

InitUploads ==
    /\ posts = <<>>
    /\ objects = {}
    /\ cache = <<>>
    /\ now = 0
    /\ sess = [p \in Procs |-> IdleSess]
    /\ log = [p \in Procs |-> <<>>]
    /\ cacheOp = NoCacheOp
    /\ up = [c \in Calls |-> IdleUp]
    /\ bucket = OldObjects
    /\ titleIn = <<>>
    /\ slugOut = <<>>
    /\ InitPages

\* onProgress?.({status}): StorageManager takes no progress callback
Report(s, sts) ==
    IF s.svc = "avatar" THEN s ELSE [s EXCEPT !.statuses = @ \o sts]

\* return { url: null, error } (uploadAvatar: throw error)
ReturnError(s, err) ==
    [s EXCEPT !.pc = "returned", !.result = [url |-> NoFileName, error |-> err]]

\* the catch block of uploadImage
CatchError(s, err) == ReturnError(Report(s, <<"error">>), err)

\* from the end of image processing to the await of storage.upload
BeginPut(s, t, r) ==
    LET key == CASE s.svc = "full" ->
                      generateFileName(s.userId, s.type,
                                       s.file, t, r)
                 [] s.svc = "light" ->
                      LightFileName(s.userId, s.type, s.file, t)
                 [] s.svc = "avatar" -> AvatarFileName(s.userId, s.file, t)
        s1  == CASE s.svc = "full" -> Report(s, <<"uploading">>)
                 [] s.svc = "light" -> Report(s, <<"uploading", "uploading">>)
                 [] s.svc = "avatar" -> s
    IN  [s1 EXCEPT !.fileName = key, !.pc = "putting",
                   !.calls = Append(@, "upload")]

\* how image processing settles: processImage rejects when the image does
\* not load or gives no blob; quickCompress resolves with the original file
AfterProcess(svc, ok) ==
    IF ok THEN "processed"
    ELSE IF svc = "full" THEN "reject" ELSE "original"

\* uploadImage(file, userId, type, onProgress) up to its first await
UploadImageStart(c, svc, file, userId, type) ==
    /\ up[c].pc = "idle"
    /\ svc \in {"full", "light"}
    /\ LET s0  == [IdleUp EXCEPT !.svc = svc, !.file = file,
                                 !.userId = userId, !.type = type]
           err == validateFile(svc, file)
       IN  up' = [up EXCEPT ![c] =
             IF err # "none"
             THEN ReturnError(IF svc = "full" THEN Report(s0, <<"error">>)
                              ELSE s0, err)
             ELSE IF svc = "light" /\ file.size < CompressThreshold
             THEN BeginPut(Report(s0, <<"uploading">>), now, "")
             ELSE [Report(s0, <<"uploading">>) EXCEPT !.pc = "decoding"]]
    /\ UNCHANGED <<pageVars, posts, objects, cache, now, sess, log, cacheOp,
                   bucket, titleIn, slugOut>>

\* img.onload or img.onerror fires
ImageLoaded(c) ==
    /\ up[c].pc = "decoding"
    /\ \E ok \in BOOLEAN, r \in RandomStrings :
          LET s == up[c]
              d == AfterProcess(s.svc, ok)
          IN  up' = [up EXCEPT ![c] =
                CASE d = "processed" ->
                       [(IF s.svc = "full"
                         THEN Report(s, <<"processing", "processing", "processing">>)
                         ELSE s) EXCEPT !.pc = "encoding"]
                  [] d = "reject" ->
                       CatchError([s EXCEPT !.processFailed = TRUE],
                                  "Failed to load image")
                  [] d = "original" ->
                       BeginPut([s EXCEPT !.processFailed = TRUE], now, r)]
    /\ UNCHANGED <<pageVars, posts, objects, cache, now, sess, log, cacheOp,
                   bucket, titleIn, slugOut>>

\* canvas.toBlob calls back, with a blob or with null
BlobReply(c) ==
    /\ up[c].pc = "encoding"
    /\ \E ok \in BOOLEAN, r \in RandomStrings :
          LET s == up[c]
              d == AfterProcess(s.svc, ok)
          IN  up' = [up EXCEPT ![c] =
                CASE d = "processed" ->
                       BeginPut([(IF s.svc = "full"
                                  THEN Report(s, <<"processing">>) ELSE s)
                                 EXCEPT !.processed = TRUE], now, r)
                  [] d = "reject" ->
                       CatchError([s EXCEPT !.processFailed = TRUE],
                                  "Failed to process image")
                  [] d = "original" ->
                       BeginPut([s EXCEPT !.processFailed = TRUE], now, r)]
    /\ UNCHANGED <<pageVars, posts, objects, cache, now, sess, log, cacheOp,
                   bucket, titleIn, slugOut>>

PutStatusesAlwaysSuccess(outcome) == <<"uploading", "success">>

\* what uploadImage reports once storage.upload has answered
PutStatuses(outcome) ==
    IF outcome = "ok" THEN <<"uploading", "success">> ELSE <<"error">>

\* storage.upload answers; uploadImage runs to its return, starting the
\* cleanup on its way (cleanupOldFiles runs up to its await of list)
PutReply(c) ==
    /\ up[c].pc = "putting"
    /\ \E outcome \in PutOutcomes(bucket, up[c].fileName, Upsert(up[c].svc)) :
          LET s  == up[c]
              s1 == Report(s, PutStatuses(outcome))
          IN  IF outcome = "ok"
              THEN /\ bucket' = PutObject(bucket, s.fileName,
                                  [id |-> s.file.id, processed |-> s.processed])
                   /\ up' = [up EXCEPT ![c] =
                        [s1 EXCEPT
                           !.pc = "returned",
                           !.result = [url |-> s.fileName, error |-> "none"],
                           !.calls = @ \o (IF s.svc = "avatar"
                                           THEN <<"getPublicUrl">>
                                           ELSE <<"getPublicUrl", "list">>),
                           !.cleanup = IF s.svc = "avatar" THEN "none"
                                       ELSE "listing"]]
              ELSE /\ bucket' = bucket
                   /\ up' = [up EXCEPT ![c] = ReturnError(s1, outcome)]
    /\ UNCHANGED <<pageVars, posts, objects, cache, now, sess, log, cacheOp,
                   titleIn, slugOut>>

Keep(svc) == IF svc = "full" THEN KeepFull ELSE KeepLight

ListLimit(svc) == IF svc = "full" THEN ListLimitFull ELSE ListLimitLight

ReplyOutcomes == {"ok", "error", "throw"}

AfterCleanupPropagates(result, outcome) ==
    IF outcome = "ok" THEN result
    ELSE [url |-> NoFileName, error |-> "Cleanup error"]

\* what the caller of uploadImage holds once the cleanup has moved on: the
\* cleanup promise is not awaited, its catch blocks log and return
AfterCleanup(result, outcome) == result

\* cleanupOldFiles: storage.list answers
CleanupListReply(c) ==
    /\ up[c].cleanup = "listing"
    /\ \E outcome \in ReplyOutcomes :
          LET s     == up[c]
              files == ListFolder(bucket, s.userId, s.type, ListLimit(s.svc))
              s1    == [s EXCEPT !.result = AfterCleanup(@, outcome)]
          IN  up' = [up EXCEPT ![c] =
                CASE outcome = "ok" /\ Len(files) > Keep(s.svc) ->
                       [s1 EXCEPT !.cleanup = "removing",
                                  !.filesToDelete = SliceFrom(files, Keep(s.svc)),
                                  !.calls = Append(@, "remove")]
                  [] outcome = "throw" -> [s1 EXCEPT !.cleanup = "failed"]
                  [] OTHER -> [s1 EXCEPT !.cleanup = "done"]]
    /\ UNCHANGED <<pageVars, posts, objects, cache, now, sess, log, cacheOp,
                   bucket, titleIn, slugOut>>

\* cleanupOldFiles: storage.remove answers
CleanupRemoveReply(c) ==
    /\ up[c].cleanup = "removing"
    /\ \E outcome \in ReplyOutcomes :
          LET s == up[c]
          IN  /\ bucket' = IF outcome = "ok"
                           THEN RemoveObjects(bucket, s.filesToDelete)
                           ELSE bucket
              /\ up' = [up EXCEPT ![c] =
                   [s EXCEPT !.result = AfterCleanup(@, outcome),
                             !.filesToDelete = {},
                             !.cleanup = IF outcome = "throw" THEN "failed"
                                         ELSE "done"]]
    /\ UNCHANGED <<pageVars, posts, objects, cache, now, sess, log, cacheOp,
                   titleIn, slugOut>>

\* uploadAvatar(file, userId) up to its await of deleteOldAvatars, which
\* runs up to its await of storage.list
UploadAvatarStart(c, file, userId) ==
    /\ up[c].pc = "idle"
    /\ LET s0  == [IdleUp EXCEPT !.svc = "avatar", !.file = file,
                                 !.userId = userId, !.type = "avatar"]
           err == validateFile("avatar", file)
       IN  up' = [up EXCEPT ![c] =
             IF err # "none" THEN ReturnError(s0, err)
             ELSE [s0 EXCEPT !.pc = "avatar_listing", !.calls = <<"list">>]]
    /\ UNCHANGED <<pageVars, posts, objects, cache, now, sess, log, cacheOp,
                   bucket, titleIn, slugOut>>

\* deleteOldAvatars: storage.list(`${userId}`) answers
AvatarListReply(c) ==
    /\ up[c].pc = "avatar_listing"
    /\ \E outcome \in ReplyOutcomes :
          LET s == up[c]
              files == ListFolder(bucket, s.userId, "", ListLimitAvatar)
              avatarFiles ==
                  {files[i].key : i \in {j \in 1..Len(files) :
                                           files[j].key.prefix = "avatar-"}}
          IN  up' = [up EXCEPT ![c] =
                IF outcome = "ok" /\ avatarFiles # {}
                THEN [s EXCEPT !.pc = "avatar_removing",
                               !.filesToDelete = avatarFiles,
                               !.calls = Append(@, "remove")]
                ELSE BeginPut(s, now, "")]
    /\ UNCHANGED <<pageVars, posts, objects, cache, now, sess, log, cacheOp,
                   bucket, titleIn, slugOut>>

\* deleteOldAvatars: storage.remove answers, and uploadAvatar goes on
AvatarRemoveReply(c) ==
    /\ up[c].pc = "avatar_removing"
    /\ \E outcome \in ReplyOutcomes :
          /\ bucket' = IF outcome = "ok"
                       THEN RemoveObjects(bucket, up[c].filesToDelete)
                       ELSE bucket
          /\ up' = [up EXCEPT ![c] =
                      BeginPut([up[c] EXCEPT !.filesToDelete = {}], now, "")]
    /\ UNCHANGED <<pageVars, posts, objects, cache, now, sess, log, cacheOp,
                   titleIn, slugOut>>

\* Date.now() moves on between two steps of the upload services
TickUploads ==
    /\ now < MaxUploadTime
    /\ now' = now + 1
    /\ UNCHANGED <<pageVars, posts, objects, cache, sess, log, cacheOp,
                   up, bucket, titleIn, slugOut>>

-----------------------------------------------------------------------------
(* Specifications *)

TitlesShort == { <<" ">>, <<"A">> }
TitlesService == { <<"A">>, <<"A", " ", "1">> }

\* the three publish entry points racing for slugs (no cover image)
Next ==
    \/ \E p \in Procs, kind \in {"direct", "edit"}, title \in Titles,
          content \in Contents, published \in BOOLEAN :
          HandleSaveDirect(p, kind, title, content, NoFile, published)
    \/ \E p \in Procs : CheckSlugReply(p)
    \/ \E p \in Procs : InsertReply(p)
    \/ \E p \in Procs, title \in Titles, content \in Contents,
          published \in BOOLEAN, thrown \in BOOLEAN :
          HandleSaveWrite(p, title, content, published, thrown)
    \/ \E p \in Procs : CreatePostCheckReply(p)
    \/ \E p \in Procs : CreatePostInsertReply(p)
    \/ \E p \in Procs : CreatePostStatsReply(p)
    \/ \E p \in Procs : Return(p)

Spec == Init /\ [][Next]_vars

\* one publish call end to end, with the cover image upload; the clock
\* stands still, so a second put by the same user meets its first key
NextUpload ==
    \/ \E p \in Procs, kind \in {"direct", "edit"}, title \in TitlesShort,
          content \in Contents, file \in Files, published \in BOOLEAN :
          HandleSaveDirect(p, kind, title, content, file, published)
    \/ \E p \in Procs : UploadReply(p)
    \/ \E p \in Procs : CheckSlugReply(p)
    \/ \E p \in Procs : InsertReply(p)
    \/ \E p \in Procs, title \in TitlesShort, content \in Contents,
          published \in BOOLEAN, thrown \in BOOLEAN :
          HandleSaveWrite(p, title, content, published, thrown)
    \/ \E p \in Procs : CreatePostCheckReply(p)
    \/ \E p \in Procs : CreatePostInsertReply(p)
    \/ \E p \in Procs : CreatePostStatsReply(p)
    \/ \E p \in Procs : Return(p)

SpecUpload == Init /\ [][NextUpload]_vars

\* DatabaseService: createPost against getAllPosts and the cache, within
\* one TTL window (no entry expires)
NextService ==
    \/ \E p \in Procs, title \in TitlesService, content \in Contents,
          published \in BOOLEAN, thrown \in BOOLEAN :
          HandleSaveWrite(p, title, content, published, thrown)
    \/ \E p \in Procs : CreatePostCheckReply(p)
    \/ \E p \in Procs : CreatePostInsertReply(p)
    \/ \E p \in Procs : CreatePostStatsReply(p)
    \/ \E p \in Procs, opt \in ReadOptions : GetAllPostsStart(p, opt)
    \/ \E p \in Procs : GetAllPostsQueryReply(p)
    \/ \E p \in Procs : GetAllPostsStatsReply(p)
    \/ \E p \in Procs : Return(p)

SpecService == Init /\ [][NextService]_vars

\* the cache alone
NextCache ==
    \/ \E k \in CacheTestKeys : CacheGet(k)
    \/ \E k \in CacheTestKeys, d \in CacheTestData : CacheSet(k, d)
    \/ CacheClear
    \/ Tick

SpecCache == Init /\ [][NextCache]_vars

\* the three upload services against one bucket, each call made once
NextUploads ==
    \/ \E c \in Calls, svc \in {"full", "light"}, file \in UploadFiles,
          userId \in Users, type \in UploadTypes :
          UploadImageStart(c, svc, file, userId, type)
    \/ \E c \in Calls : ImageLoaded(c)
    \/ \E c \in Calls : BlobReply(c)
    \/ \E c \in Calls : PutReply(c)
    \/ \E c \in Calls : CleanupListReply(c)
    \/ \E c \in Calls : CleanupRemoveReply(c)
    \/ \E c \in Calls, file \in UploadFiles, userId \in Users :
          UploadAvatarStart(c, file, userId)
    \/ \E c \in Calls : AvatarListReply(c)
    \/ \E c \in Calls : AvatarRemoveReply(c)
    \/ TickUploads

SpecUploads == InitUploads /\ [][NextUploads]_vars

\* generateSlug on its own: a title is drawn, slugified, and the result is
\* slugified again
SlugAlphabet == {"A", "b", "1", " ", "-", "!"}

RECURSIVE StringsUpTo(_)
\* the strings over SlugAlphabet of at most n characters
StringsUpTo(n) ==
    IF n = 0 THEN {<<>>}
    ELSE LET shorter == StringsUpTo(n - 1)
         IN  shorter \cup {Append(t, ch) : t \in shorter, ch \in SlugAlphabet}

InitSlug ==
    /\ posts = <<>>
    /\ objects = {}
    /\ cache = <<>>
    /\ now = 0
    /\ sess = [p \in Procs |-> IdleSess]
    /\ log = [p \in Procs |-> <<>>]
    /\ cacheOp = NoCacheOp
    /\ up = [c \in Calls |-> IdleUp]
    /\ bucket = <<>>
    /\ titleIn \in StringsUpTo(MaxTitleChars)
    /\ slugOut = <<>>
    /\ InitPages

\* generateSlug(title)
SlugifyTitle ==
    /\ slugOut = <<>>
    /\ slugOut' = <<generateSlug(titleIn)>>
    /\ UNCHANGED <<pageVars, posts, objects, cache, now, sess, log, cacheOp,
                   up, bucket, titleIn>>

\* generateSlug(generateSlug(title))
SlugifyAgain ==
    /\ Len(slugOut) = 1
    /\ slugOut' = Append(slugOut, generateSlug(slugOut[1]))
    /\ UNCHANGED <<pageVars, posts, objects, cache, now, sess, log, cacheOp,
                   up, bucket, titleIn>>

NextSlug == SlugifyTitle \/ SlugifyAgain

SpecSlug == InitSlug /\ [][NextSlug]_vars

\* titles at the length limit of the slug column
TitlesLong == { <<"A">>, Repeat("a", MaxSlugLen), Repeat("a", MaxSlugLen + 1) }

\* the handleSave handlers with long titles and valid content
NextLong ==
    \/ \E p \in Procs, kind \in {"direct", "edit"}, title \in TitlesLong,
          published \in BOOLEAN :
          HandleSaveDirect(p, kind, title, Repeat("x", MinContentLenWrite),
                           NoFile, published)
    \/ \E p \in Procs : CheckSlugReply(p)
    \/ \E p \in Procs : InsertReply(p)
    \/ \E p \in Procs : Return(p)

SpecLong == Init /\ [][NextLong]_vars

-----------------------------------------------------------------------------
(* Properties *)

Direct(p) == sess[p].kind \in {"direct", "edit"}

InLog(p, e) == \E i \in 1..Len(log[p]) : log[p][i] = e

\* C1: no two rows of the posts table have the same slug, whether they are
\* published or drafts, whatever publish and save-draft calls have run.
C1_SlugsUnique ==
    \A i, j \in 1..Len(posts) : i # j => posts[i].slug # posts[j].slug

\* two rows are stored, one of them a draft, and the table has turned down
\* an insert for its slug
C1_Witness ==
    /\ Len(posts) = 2
    /\ \E i \in 1..Len(posts) : ~posts[i].published
    /\ \E p \in Procs : sess[p].pc = "done" /\ sess[p].result = "unique_violation"

\* C2: when two concurrent publishes of the same title both resolve the same
\* candidate slug, one is stored under it and the other is stored under the
\* candidate suffixed "-1"; neither ends in failure.
C2_RaceBothSucceed ==
    \A p, q \in Procs :
        ( /\ p # q
          /\ sess[p].pc = "done" /\ sess[q].pc = "done"
          /\ Direct(p) /\ Direct(q)
          /\ sess[p].published /\ sess[q].published
          /\ sess[p].originalSlug = sess[q].originalSlug
          /\ ~sess[p].firstExists /\ ~sess[q].firstExists
          /\ sess[p].counter = 1 /\ sess[q].counter = 1
          /\ sess[p].result = "ok"
          /\ sess[q].result # "network_error" )
        => /\ sess[q].result = "ok"
           /\ sess[q].slug = SuffixedSlug(sess[q].originalSlug, 1)

SlugTaken(ps, slug) == \E i \in 1..Len(ps) : ps[i].slug = slug

\* c when no row has slug c, else c-n for the least n >= 1 that no row has
FreeSlug(c, ps) ==
    IF ~SlugTaken(ps, c) THEN c
    ELSE SuffixedSlug(c,
           CHOOSE n \in 1..(Len(ps) + 1) :
              /\ ~SlugTaken(ps, SuffixedSlug(c, n))
              /\ \A m \in 1..(n - 1) : SlugTaken(ps, SuffixedSlug(c, m)))

\* C3: against a table that does not change during the call, the resolver
\* of handleSave ends with the candidate c if no post has slug c, and else
\* with c-n for the smallest n >= 1 such that no post has slug c-n.
C3_ResolverFindsFreeSlug ==
    \A p \in Procs :
        (Direct(p) /\ sess[p].pc = "inserting" /\ ~sess[p].disturbed)
        => sess[p].slug = FreeSlug(sess[p].originalSlug, posts)

C5_Ordered ==
    \A p \in Procs :
        /\ sess[p].pc = "uploading" => ~InLog(p, "slug_query") /\ ~InLog(p, "insert")
        /\ \A i \in 1..Len(log[p]) :
              /\ (log[p][i] = "insert" /\ sess[p].file # NoFile)
                 => \E j \in 1..(i - 1) : log[p][j] \in {"upload_ok", "upload_failed"}
              /\ log[p][i] = "cache_clear"
                 => \E j \in 1..(i - 1) : log[p][j] = "insert_ok"

\* a call with a cover image has uploaded and then inserted, and a call of
\* createPost has inserted and then cleared the cache
C5_Witness ==
    \E p, q \in Procs :
        /\ InLog(p, "upload_ok") /\ InLog(p, "insert_ok")
        /\ InLog(q, "cache_clear")

\* C6: when the cover image upload fails, the publish ends with the upload's
\* error and issues neither a slug query nor an insert.
C6_FailedUploadAborts ==
    \A p \in Procs :
        (sess[p].result = "upload_failed" \/ InLog(p, "upload_failed"))
        => /\ sess[p].pc = "done" /\ sess[p].result = "upload_failed"
           /\ ~InLog(p, "slug_query") /\ ~InLog(p, "insert")
           /\ ~InLog(p, "insert_ok")

\* one call was turned down by the storage, another by the file checks
C6_Witness ==
    \E p, q \in Procs :
        /\ sess[p].pc = "done" /\ log[p] = <<"upload_put", "upload_failed">>
        /\ sess[q].pc = "done" /\ sess[q].result = "upload_failed" /\ log[q] = <<>>

\* C7: a request whose title or content is blank after trimming is rejected
\* with no side effect issued, and the step that rejects it leaves the
\* table, the bucket and the cache as they were.
C7_BlankRejected ==
    [][ \A p \in Procs :
          sess'[p].blankInput
          => /\ sess'[p].pc = "done" /\ sess'[p].result = "rejected"
             /\ log'[p] = <<>>
             /\ sess[p].pc = "idle"
                => posts' = posts /\ objects' = objects /\ cache' = cache ]_vars

\* both kinds of write page have rejected a blank request
C7_Witness ==
    \E p, q \in Procs :
        /\ sess[p].blankInput /\ sess[p].kind = "direct" /\ sess[p].pc = "done"
        /\ sess[q].blankInput /\ sess[q].kind = "write" /\ sess[q].pc = "done"

\* C8: a step of createPost empties the cache when it is the step on which
\* the insert succeeds, and every other step of createPost, on every
\* failure path, leaves the cache as it was.
C8_ClearIffInserted ==
    [][ \A p \in Procs :
          ((sess[p].kind = "write" \/ sess'[p].kind = "write")
             /\ sess'[p] # sess[p])
          => IF Len(posts') > Len(posts) THEN cache' = <<>> ELSE cache' = cache
      ]_vars

\* createPost has returned success after clearing a cache that held entries
C8_Witness ==
    \E p \in Procs :
        /\ sess[p].kind = "write" /\ sess[p].pc = "done" /\ sess[p].result = "ok"
        /\ sess[p].cleared > 0

\* C9 as claimed: get(k) returns the stored value while the entry's age does
\* not exceed the TTL, and returns absent, removing the entry, once it does.
C9_GetWithinTtlInclusive ==
    [][ cacheOp'.op = "get" =>
          LET k == cacheOp'.key
          IN  k \in CacheKeys(cache) =>
                LET e == cache[CacheIndex(cache, k)]
                IN  IF now - e.timestamp <= CACHE_TTL
                    THEN cacheOp'.hit /\ cacheOp'.data = e.data
                    ELSE ~cacheOp'.hit /\ k \notin CacheKeys(cache') ]_vars

\* C9 (amended): get(k) returns the stored value while the entry's age is
\* less than the TTL, immediately after set(k, v) included, and returns
\* absent once the age has reached the TTL; a get that finds such an entry
\* removes it from the map, and a get leaves every other entry alone.
C9_GetWithinTtl ==
    [][ cacheOp'.op = "get" =>
          LET k == cacheOp'.key
          IN  /\ k \in CacheKeys(cache) =>
                   LET e == cache[CacheIndex(cache, k)]
                   IN  IF now - e.timestamp < CACHE_TTL
                       THEN cacheOp'.hit /\ cacheOp'.data = e.data /\ cache' = cache
                       ELSE /\ ~cacheOp'.hit
                            /\ k \notin CacheKeys(cache')
                            /\ Len(cache') = Len(cache) - 1
              /\ k \notin CacheKeys(cache) => ~cacheOp'.hit /\ cache' = cache
      ]_vars

\* a get has just found an entry whose age had reached the TTL
C9_Witness ==
    /\ cacheOp.op = "get" /\ cacheOp.had /\ ~cacheOp.hit
    /\ cacheOp.key \notin CacheKeys(cache)

\* C10: the cache map never holds more than its cap of entries.
C10_CacheBounded == Len(cache) <= CacheCap

\* a set has just met a full map with a new key
C10_Witness ==
    cacheOp.op = "set" /\ cacheOp.overflow /\ Len(cache) = CacheCap

\* the keys of the map in its iteration (insertion) order
KeySeq(c) == [i \in 1..Len(c) |-> c[i].key]

\* C11 as claimed, its part on reads: a get never changes which key is the
\* next to be evicted (the first key of the map).
C11_GetKeepsNextEvicted ==
    [][ (cacheOp'.op = "get" /\ cache # <<>>)
        => (cache' # <<>> /\ cache'[1].key = cache[1].key) ]_vars

\* C11 (amended): a set that would take the map past its cap evicts exactly
\* one entry, the first-inserted key still in the map, and never the key
\* being set; any other set evicts nothing and leaves an existing key in its
\* place.  A get that returns the stored value leaves the order of the keys
\* as it was; a get that finds an expired entry removes that key and leaves
\* the order of the others, so that the next eviction moves on to the
\* following key when the removed one was the oldest.
C11_FifoEviction ==
    [][ /\ cacheOp'.op = "set" =>
             LET k == cacheOp'.key
             IN  IF k \notin CacheKeys(cache) /\ Len(cache) = CacheCap
                 THEN KeySeq(cache') = Append(Tail(KeySeq(cache)), k)
                 ELSE KeySeq(cache') =
                        IF k \in CacheKeys(cache) THEN KeySeq(cache)
                        ELSE Append(KeySeq(cache), k)
        /\ cacheOp'.op = "get" =>
             IF cacheOp'.hit THEN KeySeq(cache') = KeySeq(cache)
             ELSE KeySeq(cache') = KeySeq(MapDelete(cache, cacheOp'.key))
      ]_vars

\* a set of a new key has just evicted the oldest key of a full map and
\* stands last in the order
C11_Witness ==
    /\ cacheOp.op = "set" /\ cacheOp.overflow
    /\ Len(cache) = CacheCap /\ cache[Len(cache)].key = cacheOp.key
    /\ \A i \in 1..(Len(cache) - 1) : cache[i].key # cacheOp.key

InCalls(c, e) == \E i \in 1..Len(up[c].calls) : up[c].calls[i] = e

\* the size ceiling of each service: 5 MB, and 3 MB for the lightweight one
SizeCeiling(svc) == IF svc = "light" THEN LightMaxSize ELSE MaxFileSize

\* C12: an upload whose file has a MIME type outside the allowed set or a
\* size above the ceiling returns an error and issues no storage call: no
\* put, list, remove or public-URL operation.
C12_InvalidFileNoStorageCall ==
    \A c \in Calls :
        ( /\ up[c].svc # "none"
          /\ \/ up[c].file.type \notin AllowedTypes(up[c].svc)
             \/ up[c].file.size > SizeCeiling(up[c].svc) )
        => /\ up[c].pc = "returned"
           /\ up[c].result.url = NoFileName /\ up[c].result.error # "none"
           /\ up[c].calls = <<>>

\* uploadImage has turned down a 6 MB JPEG and uploadAvatar a PDF, while the
\* bucket is as it was
C12_Witness ==
    \E c, d \in Calls :
        /\ up[c].svc = "full" /\ up[c].file.size > MaxFileSize
        /\ up[c].file.type = "image/jpeg" /\ up[c].pc = "returned"
        /\ up[d].svc = "avatar" /\ up[d].file.type = "application/pdf"
        /\ up[d].pc = "returned"
        /\ bucket = OldObjects

\* C13: when the derived key already exists in the bucket, the put is
\* rejected: the call returns an error and no URL, and the bucket, the
\* object stored at that key included, is unchanged.
C13_NoOverwrite ==
    [][ \A c \in Calls :
          ( /\ up[c].pc = "putting" /\ up'[c].pc # "putting"
            /\ up[c].fileName \in BucketKeys(bucket) )
          => /\ up'[c].pc = "returned"
             /\ up'[c].result.url = NoFileName
             /\ up'[c].result.error # "none"
             /\ bucket' = bucket ]_vars

\* a call has returned the storage's refusal of an existing key, and the
\* object at that key is the one the other call stored
C13_Witness ==
    \E c, d \in Calls :
        /\ c # d
        /\ up[c].pc = "returned" /\ up[c].result.error = "duplicate"
        /\ up[d].result.url = up[c].fileName
        /\ \E i \in 1..Len(bucket) :
              /\ bucket[i].key = up[c].fileName
              /\ bucket[i].body.id = up[d].file.id

\* C14: any two upload attempts derive distinct storage keys.
C14_KeysDistinct ==
    \A c, d \in Calls :
        (c # d /\ up[c].fileName # NoFileName /\ up[d].fileName # NoFileName)
        => up[c].fileName # up[d].fileName

PhaseRank(st) ==
    CASE st = "uploading" -> 1 [] st = "processing" -> 2
      [] st = "success" -> 3 [] st = "error" -> 4

\* C15 as claimed: the statuses one call reports follow idle -> uploading ->
\* processing -> success, with error from any non-terminal phase; a phase is
\* never followed by an earlier one.
C15_PhasePath ==
    \A c \in Calls :
        LET sts == up[c].statuses
        IN  /\ \A i \in 1..(Len(sts) - 1) :
                  /\ sts[i] \notin {"success", "error"}
                  /\ PhaseRank(sts[i]) <= PhaseRank(sts[i + 1])
            /\ (\E i \in 1..Len(sts) : sts[i] = "success")
               => up[c].pc = "returned" /\ up[c].result.url # NoFileName

\* the status that may follow a status in the reports of uploadImage
MayFollow(a, b) ==
    CASE a = "uploading" -> b \in {"uploading", "processing", "success", "error"}
      [] a = "processing" -> b \in {"processing", "uploading", "error"}
      [] OTHER -> FALSE

\* C15 (amended): the statuses one call reports start with uploading or
\* error; uploading is followed by uploading, processing, success or error,
\* and processing by processing, by uploading again (the put follows the
\* processing) or by error, never directly by success; success and error
\* are terminal; success is reported only by a call that returns a URL, and
\* a call that returns a URL has reported success.
C15_PhaseSequence ==
    \A c \in Calls :
        LET sts == up[c].statuses
        IN  /\ sts # <<>> => sts[1] \in {"uploading", "error"}
            /\ \A i \in 1..(Len(sts) - 1) : MayFollow(sts[i], sts[i + 1])
            /\ (\E i \in 1..Len(sts) : sts[i] = "success")
               => up[c].pc = "returned" /\ up[c].result.url # NoFileName
            /\ (up[c].svc \in {"full", "light"} /\ up[c].pc = "returned"
                  /\ up[c].result.url # NoFileName)
               => sts[Len(sts)] = "success"

\* UploadService.uploadImage has gone through uploading, processing,
\* uploading again and success
C15_Witness ==
    \E c \in Calls :
        up[c].statuses = <<"uploading", "processing", "processing",
                           "processing", "processing", "uploading",
                           "uploading", "success">>

\* C16: when the put succeeded, uploadImage returns the public URL with no
\* error on the very step that takes the put's answer, with the cleanup
\* only started; and no later step, whatever the cleanup's list and remove
\* answer, changes what the caller was given.
C16_OutcomeIndependentOfCleanup ==
    [][ \A c \in Calls :
          up[c].svc \in {"full", "light"} =>
            /\ (up[c].pc = "putting" /\ up'[c] # up[c] /\ bucket' # bucket)
               => /\ up'[c].pc = "returned"
                  /\ up'[c].result = [url |-> up[c].fileName, error |-> "none"]
                  /\ up'[c].cleanup = "listing"
            /\ up[c].pc = "returned"
               => /\ up'[c].pc = "returned"
                  /\ up'[c].result = up[c].result ]_vars

\* one call holds its URL after its cleanup threw, another holds its URL
\* while its cleanup still waits for the listing
C16_Witness ==
    \E c, d \in Calls :
        /\ up[c].result.url # NoFileName /\ up[c].cleanup = "failed"
        /\ up[d].result.url # NoFileName /\ up[d].cleanup = "listing"

\* C17: when decoding or re-encoding fails, the upload goes on to the put
\* with the original file and does not return the processing error.
C17_ProcessingFailureFallsBack ==
    \A c \in Calls :
        (up[c].processFailed /\ up[c].pc = "returned")
        => /\ InCalls(c, "upload")
           /\ up[c].result.error
                 \notin {"Failed to load image", "Failed to process image"}

RECURSIVE JoinWords(_, _, _)
\* the words of s (maximal runs of [a-z0-9] once the characters outside
\* [a-z0-9], whitespace and hyphen are deleted), joined by single hyphens;
\* acc is the result so far, gap tells that a separator has been passed
JoinWords(s, acc, gap) ==
    IF s = <<>> THEN acc
    ELSE LET ch == Head(toLowerCase(<<Head(s)>>))
         IN  IF ch \in LowerAlnum
             THEN JoinWords(Tail(s),
                            acc \o (IF gap /\ acc # <<>> THEN <<"-">> ELSE <<>>)
                                \o <<ch>>,
                            FALSE)
             ELSE IF ch \in Whitespace \cup {"-"}
             THEN JoinWords(Tail(s), acc, TRUE)
             ELSE JoinWords(Tail(s), acc, gap)

\* C18: generateSlug(title) is the title lower-cased and trimmed, without
\* the characters outside [a-z0-9], whitespace and hyphen, with every run of
\* whitespace and hyphens turned into one hyphen and no hyphen at either
\* end (its lower-case words joined by single hyphens), and it is the
\* literal "untitled-post" when nothing is left.
C18_SlugOfTitle ==
    slugOut # <<>> =>
        slugOut[1] = (IF JoinWords(titleIn, <<>>, FALSE) = <<>>
                      THEN UntitledPost
                      ELSE JoinWords(titleIn, <<>>, FALSE))

\* "A! b" has become "a-b": lower-cased, "!" deleted, the space a hyphen
C18_Witness ==
    /\ titleIn = <<"A", "!", " ", "b">>
    /\ slugOut # <<>> /\ slugOut[1] = <<"a", "-", "b">>

\* C19: generateSlug(generateSlug(title)) = generateSlug(title).
C19_Idempotent ==
    Len(slugOut) = 2 => slugOut[2] = slugOut[1]

\* a title that generateSlug changes has been slugified twice
C19_Witness ==
    /\ Len(slugOut) = 2
    /\ titleIn = <<"A", " ", "-", "b">>
    /\ slugOut[2] = <<"a", "-", "b">>

\* validateSlug(slug) of lib/utils
validateSlug(slug) ==
    /\ slug # <<>>
    /\ ~(Len(slug) > MaxSlugLen)
    /\ ~(Head(slug) = "-" \/ slug[Len(slug)] = "-")
    /\ ~(\E i \in 1..(Len(slug) - 1) : slug[i] = "-" /\ slug[i + 1] = "-")
    /\ MatchesSlugPattern(slug)

\* C20: every slug that handleSave hands to the insert, for an accepted
\* title and after any uniqueness suffix, is lower-case, matches [a-z0-9-]+
\* and has at most 100 characters, so that validateSlug accepts it.
C20_AssignedSlugsValid ==
    \A p \in Procs :
        (Direct(p) /\ sess[p].pc = "inserting")
        => (Len(sess[p].slug) <= MaxSlugLen /\ validateSlug(sess[p].slug))

-----------------------------------------------------------------------------
(* extractExcerpt and truncateText of lib/utils *)

\* the longest contents tried in full, and the longest excerpts asked for
MaxContentChars == 4
MaxExcerptLen == 3

\* extractExcerpt(content, maxLength = 200)
DefaultExcerptLen == 200

\* the character U+0060 (a string of this notation cannot hold it)
Backtick == "U+0060"

\* the characters "." of a regular expression does not match
LineTerminators == {"\n", "\r"}

\* the least member of a non-empty set of positions
Least(S) == CHOOSE i \in S : \A j \in S : i <= j

\* the number of consecutive characters of Class that s holds from position i
RunLength(s, i, Class) ==
    Least({j \in i..(Len(s) + 1) : j = Len(s) + 1 \/ s[j] \notin Class}) - i

\* the position reached from position i by m steps of the scan whose next
\* positions next holds (a position beyond the input is where the scan ends)
RECURSIVE Iterate(_, _, _)
Iterate(next, m, i) ==
    IF m = 0 \/ i > Len(next) THEN i
    ELSE IF m % 2 = 0
    THEN Iterate(next, m \div 2, Iterate(next, m \div 2, i))
    ELSE LET j == Iterate(next, m - 1, i)
         IN  IF j > Len(next) THEN j ELSE next[j]

\* s.replace(re, "$1") with the g flag: the scan starts at position 1; at a
\* position where re matches, the characters of the group are kept and the
\* scan goes on behind the match; at any other position the character is
\* kept and the scan goes on at the next one. next[i] is where the scan goes
\* on from position i, keep[i] holds the positions kept there.
ReplaceAll(s, next, keep) ==
    LET visited == {Iterate(next, m, 1) : m \in 0..Len(s)} \cap (1..Len(s))
        kept    == UNION {keep[i] : i \in visited}
        IsKept(k) == k \in kept
        idx     == SelectSeq([k \in 1..Len(s) |-> k], IsKept)
    IN  [m \in 1..Len(idx) |-> s[idx[m]]]

\* /#{1,6}\s+/ matches at position i: at a "#" the greedy #{1,6} can only be
\* followed by white space when it takes the whole run
HeaderMatchEnd(s, i) ==
    LET n == RunLength(s, i, {"#"})
        w == RunLength(s, i + n, Whitespace)
    IN  IF n >= 1 /\ n <= 6 /\ w >= 1 THEN i + n + w ELSE 0

\* s.replace(/#{1,6}\s+/g, "")
RemoveHeaders(s) ==
    ReplaceAll(s,
        [i \in 1..Len(s) |->
            IF HeaderMatchEnd(s, i) # 0 THEN HeaderMatchEnd(s, i) ELSE i + 1],
        [i \in 1..Len(s) |-> IF HeaderMatchEnd(s, i) # 0 THEN {} ELSE {i}])

\* where the closing "**" of /\*\*(.*?)\*\*/ can stand for an opening one at
\* position i
BoldClosers(s, i) ==
    IF i + 1 <= Len(s) /\ s[i] = "*" /\ s[i + 1] = "*"
    THEN {j \in (i + 2)..(Len(s) - 1) :
             /\ s[j] = "*" /\ s[j + 1] = "*"
             /\ \A k \in (i + 2)..(j - 1) : s[k] \notin LineTerminators}
    ELSE {}

\* s.replace(/\*\*(.*?)\*\*/g, "$1")
StripBold(s) ==
    ReplaceAll(s,
        [i \in 1..Len(s) |->
            IF BoldClosers(s, i) # {} THEN Least(BoldClosers(s, i)) + 2
            ELSE i + 1],
        [i \in 1..Len(s) |->
            IF BoldClosers(s, i) # {}
            THEN (i + 2)..(Least(BoldClosers(s, i)) - 1) ELSE {i}])

\* where the closing delimiter of /d(.*?)d/ can stand for an opening one at
\* position i
PairClosers(s, i, d) ==
    IF s[i] = d
    THEN {j \in (i + 1)..Len(s) :
             /\ s[j] = d
             /\ \A k \in (i + 1)..(j - 1) : s[k] \notin LineTerminators}
    ELSE {}

\* s.replace(/d(.*?)d/g, "$1") for a one-character delimiter d:
\* /\*(.*?)\*/ and the same with U+0060
StripPairs(s, d) ==
    ReplaceAll(s,
        [i \in 1..Len(s) |->
            IF PairClosers(s, i, d) # {} THEN Least(PairClosers(s, i, d)) + 1
            ELSE i + 1],
        [i \in 1..Len(s) |->
            IF PairClosers(s, i, d) # {}
            THEN (i + 1)..(Least(PairClosers(s, i, d)) - 1) ELSE {i}])

\* where a match of /\[([^\]]+)\]$$[^)]+$$/ that starts at position i ends:
\* "[", one or more characters other than "]", "]" at position j, the end of
\* the input (the two "$"), one or more characters other than ")" up to
\* position e, and the end of the input again
LinkMatchEnds(s, i) ==
    {e \in i..Len(s) :
        \E j \in (i + 2)..Len(s) :
            /\ s[i] = "["
            /\ \A k \in (i + 1)..(j - 1) : s[k] # "]"
            /\ s[j] = "]"
            /\ j = Len(s)
            /\ e >= j + 1
            /\ \A k \in (j + 1)..e : s[k] # ")"
            /\ e = Len(s)}

\* s.replace(/\[([^\]]+)\]$$[^)]+$$/g, "$1")
ReplaceLinks(s) ==
    ReplaceAll(s,
        [i \in 1..Len(s) |->
            IF LinkMatchEnds(s, i) # {} THEN Len(s) + 1 ELSE i + 1],
        [i \in 1..Len(s) |->
            IF LinkMatchEnds(s, i) # {}
            THEN (i + 1)..(Least({j \in (i + 2)..Len(s) : s[j] = "]"}) - 1)
            ELSE {i}])

\* the mutant: the slice is returned whole
truncateTextUncut(text, maxLength) == text

\* truncateText(text, maxLength)
truncateText(text, maxLength) ==
    IF text = <<>> THEN <<>>
    ELSE IF maxLength <= 0 THEN <<>>
    ELSE IF Len(text) <= maxLength THEN text
    ELSE trim(SubSeq(text, 1, maxLength)) \o <<".", ".", ".">>

\* extractExcerpt(content, maxLength)
extractExcerpt(content, maxLength) ==
    IF content = <<>> THEN <<>>
    ELSE LET noHeaders == RemoveHeaders(content)
             noBold    == StripBold(noHeaders)
             noItalic  == StripPairs(noBold, "*")
             noCode    == StripPairs(noItalic, Backtick)
             noLinks   == ReplaceLinks(noCode)
             oneLine   == CollapseRuns(noLinks, {"\n"}, " ")
             plainText == trim(oneLine)
         IN  truncateText(plainText, maxLength)

\* the characters of the contents tried in full
ExcerptAlphabet == {"#", "*", Backtick, " ", "\n", "a"}

RECURSIVE ContentsUpTo(_)
ContentsUpTo(n) ==
    IF n = 0 THEN {<<>>}
    ELSE LET shorter == ContentsUpTo(n - 1)
         IN  shorter \cup {Append(t, ch) : t \in shorter, ch \in ExcerptAlphabet}

\* longer contents: links, a heading of seven "#", the example of the
\* documentation in small
MarkdownSamples ==
    { <<"[", "a", "]", "(", "u", ")">>,
      <<"a", " ", "[", "a", "]", "(", "u", ")", " ", "a">>,
      <<"[", "a", "]">>,
      <<"#", "#", "#", "#", "#", "#", "#", " ", "a">>,
      <<"#", " ", "a", "\n", "\n", "a", " ", "*", "*", "a", "*", "*", " ", "a">> }

ExcerptLengths == (0..MaxExcerptLen) \cup {DefaultExcerptLen}

InitExcerpt ==
    /\ posts = <<>>
    /\ objects = {}
    /\ cache = <<>>
    /\ now = 0
    /\ sess = [p \in Procs |-> IdleSess]
    /\ log = [p \in Procs |-> <<>>]
    /\ cacheOp = NoCacheOp
    /\ up = [c \in Calls |-> IdleUp]
    /\ bucket = <<>>
    /\ titleIn = <<>>
    /\ slugOut = <<>>
    /\ excerptIn \in [content : ContentsUpTo(MaxContentChars) \cup MarkdownSamples,
                      maxLength : ExcerptLengths]
    /\ excerptOut = <<>>
    /\ editor = IdleEditor
    /\ likes = <<>>
    /\ tog = [c \in Calls |-> IdleTog]
    /\ dash = [p \in Users |-> IdleDash]

\* extractExcerpt(content, maxLength)
ExtractExcerpt ==
    /\ excerptOut = <<>>
    /\ excerptOut' = <<extractExcerpt(excerptIn.content, excerptIn.maxLength)>>
    /\ UNCHANGED <<posts, objects, cache, now, sess, log, cacheOp, libVars,
                   excerptIn, editor, likes, tog, dash>>

NextExcerpt == ExtractExcerpt

SpecExcerpt == InitExcerpt /\ [][NextExcerpt]_vars

\* s holds the characters of part next to each other
Contains(s, part) ==
    \E i \in 1..(Len(s) - Len(part) + 1) :
        SubSeq(s, i, i + Len(part) - 1) = part

\* every run of "#" in s is at most six long and is followed by white space
OnlyHeadingMarkers(s) ==
    \A i \in 1..Len(s) :
        (s[i] = "#" /\ (i = 1 \/ s[i - 1] # "#"))
        => /\ RunLength(s, i, {"#"}) <= 6
           /\ RunLength(s, i + RunLength(s, i, {"#"}), Whitespace) >= 1

\* C21 as stated: the excerpt is at most maxLength + 3 characters long and
\* holds neither "#" nor "**"; an empty content gives the empty excerpt.
C21_Original ==
    excerptOut # <<>> =>
        /\ Len(excerptOut[1]) <= excerptIn.maxLength + 3
        /\ ~Contains(excerptOut[1], <<"#">>)
        /\ ~Contains(excerptOut[1], <<"*", "*">>)
        /\ (excerptIn.content = <<>> => excerptOut[1] = <<>>)

\* C21: extractExcerpt(content, maxLength) is at most maxLength + 3
\* characters long and never holds the bold marker "**"; it holds no "#"
\* when every run of "#" in the content is one to six long and followed by
\* white space (a "#" that nothing white follows is kept); an empty content
\* gives the empty excerpt.
C21_ExcerptBounded ==
    excerptOut # <<>> =>
        /\ Len(excerptOut[1]) <= excerptIn.maxLength + 3
        /\ ~Contains(excerptOut[1], <<"*", "*">>)
        /\ (OnlyHeadingMarkers(excerptIn.content)
            => ~Contains(excerptOut[1], <<"#">>))
        /\ (excerptIn.content = <<>> => excerptOut[1] = <<>>)

\* a heading whose text is cut: "# aa" at maxLength 1 gives "a..."
C21_Witness ==
    /\ excerptIn = [content |-> <<"#", " ", "a", "a">>, maxLength |-> 1]
    /\ excerptOut = << <<"a", ".", ".", ".">> >>

\* s holds "[", then a text, then "](", then a url, then ")"
HasLink(s) ==
    \E i, j, k \in 1..Len(s) :
        /\ i + 1 < j /\ j + 2 < k
        /\ s[i] = "[" /\ s[j] = "]" /\ s[j + 1] = "(" /\ s[k] = ")"
        /\ \A m \in (i + 1)..(j - 1) : s[m] # "]"
        /\ \A m \in (j + 2)..(k - 1) : s[m] # ")"

\* C22: a markdown link [text](url) of the content is replaced with its
\* text, so that an excerpt that was not cut holds no link any more.
C22_LinksReplaced ==
    (excerptOut # <<>> /\ excerptIn.maxLength = DefaultExcerptLen)
    => ~HasLink(excerptOut[1])

-----------------------------------------------------------------------------
(* The excerpt field of the write page *)

\* what the author puts into the content field, typing or pasting
EditorContents ==
    { <<>>, <<"a">>, <<"#", " ", "a">>, <<"*", "*">>,
      Repeat("x", MinContentLenWrite),
      <<"#", " ">> \o Repeat("a", MinContentLenWrite) }

\* what the author puts into the excerpt field
EditorExcerpts == { <<>>, <<" ">>, <<"a", " ">> }

\* the effect on [content, excerpt], run after the render that follows a
\* change of either
AutoExcerpt(e) ==
    IF trim(e.content) # <<>> /\ trim(e.excerpt) = <<>>
    THEN [e EXCEPT !.excerpt = extractExcerpt(e.content, DefaultExcerptLen)]
    ELSE e

\* onChange of the content field: setContent(e.target.value)
SetContent(content) ==
    /\ editor.pc = "editing"
    /\ content # editor.content
    /\ editor' = AutoExcerpt([editor EXCEPT !.content = content])
    /\ UNCHANGED <<posts, objects, cache, now, sess, log, cacheOp, libVars,
                   excerptIn, excerptOut, likes, tog, dash>>

\* onChange of the excerpt field: setExcerpt(e.target.value)
SetExcerpt(excerpt) ==
    /\ editor.pc = "editing"
    /\ excerpt # editor.excerpt
    /\ editor' = AutoExcerpt([editor EXCEPT !.excerpt = excerpt,
                                            !.typed = TRUE])
    /\ UNCHANGED <<posts, objects, cache, now, sess, log, cacheOp, libVars,
                   excerptIn, excerptOut, likes, tog, dash>>

\* excerpt.trim() || extractExcerpt(content, 200)
FinalExcerpt(e) ==
    IF trim(e.excerpt) # <<>> THEN trim(e.excerpt)
    ELSE extractExcerpt(e.content, DefaultExcerptLen)

\* handleSave with the fields as they are rendered, up to the insert: a form
\* that validateForm rejects is not saved
HandleSaveExcerpt(title) ==
    /\ editor.pc = "editing"
    /\ editor' =
         IF validateForm(title, editor.content, MinContentLenWrite)
         THEN [editor EXCEPT !.pc = "inserting",
                             !.finalExcerpt = FinalExcerpt(editor)]
         ELSE [editor EXCEPT !.pc = "rejected"]
    /\ UNCHANGED <<posts, objects, cache, now, sess, log, cacheOp, libVars,
                   excerptIn, excerptOut, likes, tog, dash>>

\* the table answers the insert
EditorInsertReply ==
    /\ editor.pc = "inserting"
    /\ \E ok \in BOOLEAN :
          editor' = [editor EXCEPT !.pc = IF ok THEN "saved" ELSE "failed"]
    /\ UNCHANGED <<posts, objects, cache, now, sess, log, cacheOp, libVars,
                   excerptIn, excerptOut, likes, tog, dash>>

\* the toast is shown; the author goes on editing
EditorReturn ==
    /\ editor.pc \in {"rejected", "failed"}
    /\ editor' = [editor EXCEPT !.pc = "editing"]
    /\ UNCHANGED <<posts, objects, cache, now, sess, log, cacheOp, libVars,
                   excerptIn, excerptOut, likes, tog, dash>>

NextEditor ==
    \/ \E content \in EditorContents : SetContent(content)
    \/ \E excerpt \in EditorExcerpts : SetExcerpt(excerpt)
    \/ \E title \in TitlesShort : HandleSaveExcerpt(title)
    \/ EditorInsertReply
    \/ EditorReturn

SpecEditor == Init /\ [][NextEditor]_vars

\* C23: when the author never types into the excerpt field, the excerpt
\* persisted with the post is extractExcerpt of the content at the moment
\* of saving.
C23_ExcerptOfFinalContent ==
    (editor.pc = "saved" /\ ~editor.typed)
    => editor.finalExcerpt = extractExcerpt(editor.content, DefaultExcerptLen)

-----------------------------------------------------------------------------
(* The dashboard: togglePublishStatus and handleDeletePost; getPostBySlug *)

\* the primary key of a row: the table also keeps the slug unique and no
\* operation of the model rewrites it, so a row is known by it
PostId(row) == row.slug

\* the table the dashboard starts from: a published post and a draft of u1,
\* both saved under the title "A"
DashboardPosts ==
    << [slug |-> <<"a">>, author_id |-> "u1", published |-> TRUE],
       [slug |-> <<"a", "-", "1">>, author_id |-> "u1", published |-> FALSE] >>

InitDashboard ==
    /\ posts = DashboardPosts
    /\ objects = {}
    /\ cache = <<>>
    /\ now = 0
    /\ sess = [p \in Procs |-> IdleSess]
    /\ log = [p \in Procs |-> <<>>]
    /\ cacheOp = NoCacheOp
    /\ up = [c \in Calls |-> IdleUp]
    /\ bucket = <<>>
    /\ titleIn = <<>>
    /\ slugOut = <<>>
    /\ InitPages

\* the mutant: the update carries no filter on the id
UpdatePublishedEverywhere(ps, uid, id, value) ==
    [i \in 1..Len(ps) |->
        IF ps[i].author_id = uid THEN [ps[i] EXCEPT !.published = value]
        ELSE ps[i]]

\* from("posts").update({published: value}).eq("id", id), under the policy
\* posts_update_own
UpdatePublished(ps, uid, id, value) ==
    [i \in 1..Len(ps) |->
        IF PostId(ps[i]) = id /\ ps[i].author_id = uid
        THEN [ps[i] EXCEPT !.published = value]
        ELSE ps[i]]

\* from("posts").delete().eq("id", id), under the policy posts_delete_own
DeleteById(ps, uid, id) ==
    LET Stays(row) == ~(PostId(row) = id /\ row.author_id = uid)
    IN  SelectSeq(ps, Stays)

\* togglePublishStatus(post) up to its await; the dashboard lists the posts
\* of its user, post is one of them
TogglePublishStart(p, i) ==
    /\ dash[p].pc = "idle"
    /\ i \in 1..Len(posts)
    /\ posts[i].author_id = p
    /\ dash' = [dash EXCEPT ![p] =
                  [IdleDash EXCEPT !.pc = "updating",
                                   !.target = PostId(posts[i]),
                                   !.published = ~posts[i].published,
                                   !.calls = <<"update">>]]
    /\ UNCHANGED <<posts, objects, cache, now, sess, log, cacheOp, libVars,
                   excerptIn, excerptOut, editor, likes, tog>>

\* the table answers the update
TogglePublishReply(p) ==
    /\ dash[p].pc = "updating"
    /\ \E error \in BOOLEAN :
          /\ posts' = IF error THEN posts
                      ELSE UpdatePublished(posts, p, dash[p].target,
                                           dash[p].published)
          /\ dash' = [dash EXCEPT ![p] =
                        [@ EXCEPT !.pc = "done",
                                  !.result = IF error THEN "error"
                                             ELSE "toggled"]]
    /\ UNCHANGED <<objects, cache, now, sess, log, cacheOp, libVars,
                   excerptIn, excerptOut, editor, likes, tog>>

\* handleDeletePost(postId), confirmed, up to its await
DeletePostStart(p, i) ==
    /\ dash[p].pc = "idle"
    /\ i \in 1..Len(posts)
    /\ posts[i].author_id = p
    /\ dash' = [dash EXCEPT ![p] =
                  [IdleDash EXCEPT !.pc = "deleting",
                                   !.target = PostId(posts[i]),
                                   !.calls = <<"delete">>]]
    /\ UNCHANGED <<posts, objects, cache, now, sess, log, cacheOp, libVars,
                   excerptIn, excerptOut, editor, likes, tog>>

\* the table answers the delete
DeletePostReply(p) ==
    /\ dash[p].pc = "deleting"
    /\ \E error \in BOOLEAN :
          /\ posts' = IF error THEN posts
                      ELSE DeleteById(posts, p, dash[p].target)
          /\ dash' = [dash EXCEPT ![p] =
                        [@ EXCEPT !.pc = "done",
                                  !.result = IF error THEN "error"
                                             ELSE "deleted"]]
    /\ UNCHANGED <<objects, cache, now, sess, log, cacheOp, libVars,
                   excerptIn, excerptOut, editor, likes, tog>>

\* the toast is shown
DashReturn(p) ==
    /\ dash[p].pc = "done"
    /\ dash' = [dash EXCEPT ![p] = IdleDash]
    /\ UNCHANGED <<posts, objects, cache, now, sess, log, cacheOp, libVars,
                   excerptIn, excerptOut, editor, likes, tog>>

\* `post_${slug}`
PostCacheKey(slug) == <<"post_", slug>>

\* .eq("slug", slug).eq("published", true).single(): the row is shown by its
\* slug
PublishedBySlug(ps, slug) ==
    LET Matches(row) == row.slug = slug /\ row.published
        rows == SelectSeq(ps, Matches)
    IN  IF Len(rows) = 1 THEN <<rows[1].slug>> ELSE <<>>

\* getPostBySlug(slug) up to its first await
GetPostBySlugStart(p, slug) ==
    /\ sess[p].pc = "idle"
    /\ LET cached == getCachedData(cache, PostCacheKey(slug), now)
           s0 == [sess[p] EXCEPT !.kind = "post_reader", !.slug = slug]
       IN  /\ cache' = cached.cache
           /\ sess' = [sess EXCEPT ![p] =
                         IF cached.hit
                         THEN Finish([s0 EXCEPT !.fetched = cached.data], "ok")
                         ELSE [s0 EXCEPT !.pc = "gp_query"]]
    /\ log' = [log EXCEPT ![p] = <<>>]
    /\ UNCHANGED <<posts, objects, now, cacheOp, libVars, pageVars>>

\* the table answers the query (an error or no row: the method returns null)
GetPostBySlugQueryReply(p) ==
    /\ sess[p].pc = "gp_query"
    /\ \E error \in BOOLEAN :
          LET post == IF error THEN <<>>
                      ELSE PublishedBySlug(posts, sess[p].slug)
          IN  sess' = [sess EXCEPT ![p] =
                         IF post = <<>> THEN Finish(sess[p], "ok")
                         ELSE [sess[p] EXCEPT !.pc = "gp_stats",
                                              !.fetched = post]]
    /\ UNCHANGED <<posts, objects, cache, now, log, cacheOp, libVars, pageVars>>

\* addStatsToSinglePost settles; the post is cached and returned
GetPostBySlugStatsReply(p) ==
    /\ sess[p].pc = "gp_stats"
    /\ cache' = setCachedData(cache, PostCacheKey(sess[p].slug),
                              sess[p].fetched, now)
    /\ sess' = [sess EXCEPT ![p] = Finish(sess[p], "ok")]
    /\ UNCHANGED <<posts, objects, now, log, cacheOp, libVars, pageVars>>

\* the visitor u2 reads, the owner u1 works on the dashboard
NextDashboard ==
    \/ \E i \in 1..MaxPosts : TogglePublishStart("u1", i)
    \/ TogglePublishReply("u1")
    \/ \E i \in 1..MaxPosts : DeletePostStart("u1", i)
    \/ DeletePostReply("u1")
    \/ DashReturn("u1")
    \/ \E slug \in {DashboardPosts[i].slug : i \in 1..Len(DashboardPosts)} :
          GetPostBySlugStart("u2", slug)
    \/ GetPostBySlugQueryReply("u2")
    \/ GetPostBySlugStatsReply("u2")
    \/ GetAllPostsStart("u2", "all")
    \/ GetAllPostsQueryReply("u2")
    \/ GetAllPostsStatsReply("u2")
    \/ Return("u2")
    \/ Tick

SpecDashboard == InitDashboard /\ [][NextDashboard]_vars

\* C24: the update of togglePublishStatus changes the published flag of the
\* targeted post and nothing else: no row appears or goes, every row keeps
\* its slug and its author, every other row stays as it is, and the handler
\* issues the update alone (no slug query).
C24_ToggleFrame ==
    [][ \A p \in Procs :
          (dash[p].pc = "updating" /\ dash'[p].pc = "done")
          => /\ Len(posts') = Len(posts)
             /\ \A i \in 1..Len(posts) :
                   /\ posts'[i].slug = posts[i].slug
                   /\ posts'[i].author_id = posts[i].author_id
                   /\ PostId(posts[i]) # dash[p].target => posts'[i] = posts[i]
                   /\ posts'[i].published # posts[i].published
                      => posts'[i].published = dash[p].published
             /\ dash'[p].calls = <<"update">> ]_vars

\* u1 has unpublished the post "a" while the draft is as it was
C24_Witness ==
    /\ dash["u1"].pc = "done" /\ dash["u1"].result = "toggled"
    /\ Len(posts) = 2
    /\ ~posts[1].published /\ posts[2] = DashboardPosts[2]

\* C27: getPostBySlug and getAllPosts never return a post that is
\* unpublished or deleted in the store when the call starts (a call answered
\* from the cache starts and returns in one step).
C27_NoUnpublishedRead ==
    [][ \A p \in Procs :
          (sess[p].pc = "idle" /\ sess'[p].pc = "done"
           /\ sess'[p].kind \in {"reader", "post_reader"})
          => \A i \in 1..Len(sess'[p].fetched) :
                \E j \in 1..Len(posts) :
                    posts[j].slug = sess'[p].fetched[i] /\ posts[j].published
      ]_vars

-----------------------------------------------------------------------------
(* cleanupOldFiles on a folder that holds more objects than one listing *)

\* the random parts of the names of the objects the folder starts with: one
\* more than UploadService lists
ManyRandomStrings ==
    << "m01", "m02", "m03", "m04", "m05", "m06", "m07", "m08", "m09",
       "m10", "m11", "m12", "m13", "m14", "m15", "m16", "m17", "m18",
       "m19", "m20", "m21" >>

\* a folder u1/post that earlier uploads have filled (their cleanups were
\* cut short or failed) beyond the limit of the listing
ManyObjects ==
    [i \in 1..Len(ManyRandomStrings) |->
        [key |-> generateFileName("u1", "post", [ext |-> "jpg"], 0,
                                  ManyRandomStrings[i]),
         body |-> [id |-> "f0", processed |-> TRUE]]]

InitCleanup ==
    /\ posts = <<>>
    /\ objects = {}
    /\ cache = <<>>
    /\ now = 0
    /\ sess = [p \in Procs |-> IdleSess]
    /\ log = [p \in Procs |-> <<>>]
    /\ cacheOp = NoCacheOp
    /\ up = [c \in Calls |-> IdleUp]
    /\ bucket = ManyObjects
    /\ titleIn = <<>>
    /\ slugOut = <<>>
    /\ InitPages

\* one upload into the folder, by either service, and its cleanup pass
NextCleanup ==
    \/ \E svc \in {"full", "light"}, file \in UploadFiles :
          UploadImageStart("c1", svc, file, "u1", "post")
    \/ ImageLoaded("c1")
    \/ BlobReply("c1")
    \/ PutReply("c1")
    \/ CleanupListReply("c1")
    \/ CleanupRemoveReply("c1")
    \/ TickUploads

SpecCleanup == InitCleanup /\ [][NextCleanup]_vars

\* C25: after a cleanup pass that listed and removed without error, at most
\* the retention count of objects (5 in UploadService, 3 in
\* LightweightUploadService) remain under {userId}/{purpose}, and they are
\* the newest ones, however many objects the folder held before.
C25_RetentionAfterCleanup ==
    [][ \A c \in Calls :
          (up[c].cleanup = "removing" /\ up'[c].cleanup = "done"
           /\ bucket' # bucket)
          => LET all == Len(ManyObjects) + Cardinality(Calls)
                 before == ListFolder(bucket, up[c].userId, up[c].type, all)
                 after  == ListFolder(bucket', up[c].userId, up[c].type, all)
             IN  /\ Len(after) <= Keep(up[c].svc)
                 /\ after = Take(before, Keep(up[c].svc)) ]_vars

-----------------------------------------------------------------------------
(* createPost against a getAllPosts in flight *)

\* the slugs a list holds
SlugsOf(list) == {list[i] : i \in 1..Len(list)}

\* createPost has returned for the row of this slug: no call is between its
\* insert and its return
CreateReturned(slug) ==
    ~\E q \in Procs : sess[q].pc = "cp_stats" /\ sess[q].slug = slug

\* C26: once createPost has returned success for a published post, every
\* getAllPosts call that starts afterwards with matching filters returns a
\* list that contains it (a call answered from the cache starts and returns
\* in one step).
C26_ReadAfterCreate ==
    [][ \A p \in Procs :
          (sess[p].pc = "idle" /\ sess'[p].pc = "done"
           /\ sess'[p].kind = "reader")
          => \A i \in 1..Len(posts) :
                (/\ posts[i].published
                 /\ sess'[p].options \in {"all", posts[i].author_id}
                 /\ CreateReturned(posts[i].slug))
                => posts[i].slug \in SlugsOf(sess'[p].fetched) ]_vars

-----------------------------------------------------------------------------
(* The slug resolver loop of handleSave *)

\* the slug-existence queries the running handleSave has issued
QueriesIssued(p) ==
    Cardinality({i \in 1..Len(log[p]) : log[p][i] = "slug_query"})

\* handleSave of the write page and of the edit page, on their own
NextResolver ==
    \/ \E p \in Procs, kind \in {"direct", "edit"}, title \in Titles,
          content \in Contents, published \in BOOLEAN :
          HandleSaveDirect(p, kind, title, content, NoFile, published)
    \/ \E p \in Procs : CheckSlugReply(p)
    \/ \E p \in Procs : InsertReply(p)
    \/ \E p \in Procs : Return(p)

\* every slug query is answered: the awaited promise settles
SpecResolver ==
    Init /\ [][NextResolver]_vars
         /\ \A p \in Procs : WF_vars(CheckSlugReply(p))

\* C28: with no insert by others while it runs, the resolver loop of
\* handleSave issues at most (number of posts in the table + 1)
\* slug-existence queries before the insert is attempted, and it terminates.
C28_ResolverTerminates ==
    /\ [](\A p \in Procs :
            (Direct(p) /\ sess[p].pc \in {"checking", "inserting"}
             /\ ~sess[p].disturbed)
            => QueriesIssued(p) <= Len(posts) + 1)
    /\ \A p \in Procs :
          (Direct(p) /\ sess[p].pc = "checking")
          ~> (sess[p].pc # "checking")

\* the loop has gone round: the slug of the title was taken, the suffixed
\* one is free, and the insert is being attempted
C28_Witness ==
    \E p \in Procs :
        /\ Direct(p) /\ sess[p].pc = "inserting" /\ ~sess[p].disturbed
        /\ Len(posts) >= 1
        /\ QueriesIssued(p) = Len(posts) + 1

-----------------------------------------------------------------------------
(* uploadAvatar on a user who has an avatar *)

\* the avatar u1 stored before the clock of the model started
OldAvatar ==
    [key  |-> AvatarFileName("u1", [ext |-> "jpg"], -1),
     body |-> [id |-> "f0", processed |-> FALSE]]

InitAvatar ==
    /\ posts = <<>>
    /\ objects = {}
    /\ cache = <<>>
    /\ now = 0
    /\ sess = [p \in Procs |-> IdleSess]
    /\ log = [p \in Procs |-> <<>>]
    /\ cacheOp = NoCacheOp
    /\ up = [c \in Calls |-> IdleUp]
    /\ bucket = <<OldAvatar>>
    /\ titleIn = <<>>
    /\ slugOut = <<>>
    /\ InitPages

NextAvatar ==
    \/ \E c \in Calls, file \in UploadFiles, userId \in Users :
          UploadAvatarStart(c, file, userId)
    \/ \E c \in Calls : AvatarListReply(c)
    \/ \E c \in Calls : AvatarRemoveReply(c)
    \/ \E c \in Calls : PutReply(c)
    \/ TickUploads

SpecAvatar == InitAvatar /\ [][NextAvatar]_vars

\* C29: when every uploadAvatar call made so far has failed (invalid type,
\* oversized file, or the put rejected), the avatar the user had in storage
\* before the calls is still there: old avatars go only when a new one has
\* been stored.
C29_FailedUploadKeepsAvatar ==
    (/\ \E c \in Calls : up[c].pc = "returned"
     /\ \A c \in Calls :
           \/ up[c].pc = "idle"
           \/ up[c].pc = "returned" /\ up[c].result.error # "none")
    => OldAvatar.key \in BucketKeys(bucket)

-----------------------------------------------------------------------------
(* BrowserDatabaseService.toggleLike *)

LikedPosts == {"p1"}

\* the row of the likes table for a user and a post
LikeRow(userId, postId) == [user_id |-> userId, post_id |-> postId]

\* .eq("user_id", userId).eq("post_id", postId)
LikesOf(ls, userId, postId) ==
    {i \in 1..Len(ls) : ls[i] = LikeRow(userId, postId)}

\* insert({user_id, post_id}) under UNIQUE(user_id, post_id): the answers
\* it can give
LikeInsertOutcomes(ls, userId, postId) ==
    IF LikesOf(ls, userId, postId) # {} THEN {"unique_violation"}
    ELSE {"ok", "error"}

\* delete().eq("user_id", userId).eq("post_id", postId)
DeleteLikes(ls, userId, postId) ==
    LET Stays(row) == row # LikeRow(userId, postId)
    IN  SelectSeq(ls, Stays)

\* the likes table holds the like of u1 for p1, or it does not
InitLikes ==
    /\ posts = <<>>
    /\ objects = {}
    /\ cache = <<>>
    /\ now = 0
    /\ sess = [p \in Procs |-> IdleSess]
    /\ log = [p \in Procs |-> <<>>]
    /\ cacheOp = NoCacheOp
    /\ up = [c \in Calls |-> IdleUp]
    /\ bucket = <<>>
    /\ titleIn = <<>>
    /\ slugOut = <<>>
    /\ excerptIn = NoExcerptIn
    /\ excerptOut = <<>>
    /\ editor = IdleEditor
    /\ likes \in {<<>>, <<LikeRow("u1", "p1")>>}
    /\ tog = [c \in Calls |-> IdleTog]
    /\ dash = [p \in Users |-> IdleDash]

\* toggleLike(postId, userId) up to its await of the select
ToggleLikeStart(c, postId, userId) ==
    /\ tog[c].pc = "idle"
    /\ tog' = [tog EXCEPT ![c] =
                 [IdleTog EXCEPT
                    !.pc = "selecting", !.userId = userId, !.postId = postId,
                    !.order = 1 + Cardinality({d \in Calls : tog[d].pc # "idle"}),
                    !.likedBefore = LikesOf(likes, userId, postId) # {}]]
    /\ UNCHANGED <<posts, objects, cache, now, sess, log, cacheOp, libVars,
                   excerptIn, excerptOut, editor, likes, dash>>

\* the table answers select("id")...single(): existingLike is the row, or
\* null when there is none or when the query failed; the delete or the
\* insert is issued
ToggleSelectReply(c) ==
    /\ tog[c].pc = "selecting"
    /\ \E error \in BOOLEAN :
          LET rows == LikesOf(likes, tog[c].userId, tog[c].postId)
              existingLike == ~error /\ SingleData(rows)
          IN  tog' = [tog EXCEPT ![c] =
                        [@ EXCEPT !.existingLike = existingLike,
                                  !.faulted = error,
                                  !.pc = IF existingLike THEN "deleting"
                                         ELSE "inserting"]]
    /\ UNCHANGED <<posts, objects, cache, now, sess, log, cacheOp, libVars,
                   excerptIn, excerptOut, editor, likes, dash>>

\* the table answers the delete: { success: !error, isLiked: false }
ToggleDeleteReply(c) ==
    /\ tog[c].pc = "deleting"
    /\ \E error \in BOOLEAN :
          /\ likes' = IF error THEN likes
                      ELSE DeleteLikes(likes, tog[c].userId, tog[c].postId)
          /\ tog' = [tog EXCEPT ![c] =
                       [@ EXCEPT !.pc = "returned", !.success = ~error,
                                 !.faulted = @ \/ error]]
    /\ UNCHANGED <<posts, objects, cache, now, sess, log, cacheOp, libVars,
                   excerptIn, excerptOut, editor, dash>>

\* the table answers the insert: { success: !error, isLiked: true }
ToggleInsertReply(c) ==
    /\ tog[c].pc = "inserting"
    /\ \E outcome \in LikeInsertOutcomes(likes, tog[c].userId, tog[c].postId) :
          /\ likes' = IF outcome = "ok"
                      THEN Append(likes, LikeRow(tog[c].userId, tog[c].postId))
                      ELSE likes
          /\ tog' = [tog EXCEPT ![c] =
                       [@ EXCEPT !.pc = "returned", !.success = (outcome = "ok"),
                                 !.faulted = @ \/ outcome = "error"]]
    /\ UNCHANGED <<posts, objects, cache, now, sess, log, cacheOp, libVars,
                   excerptIn, excerptOut, editor, dash>>

\* each call is made once
NextLikes ==
    \/ \E c \in Calls, postId \in LikedPosts, userId \in Users :
          ToggleLikeStart(c, postId, userId)
    \/ \E c \in Calls : ToggleSelectReply(c)
    \/ \E c \in Calls : ToggleDeleteReply(c)
    \/ \E c \in Calls : ToggleInsertReply(c)

SpecLikes == InitLikes /\ [][NextLikes]_vars

\* C30: two toggleLike calls by the same user on the same post, sequential
\* or overlapping, that the store answers without a failure of its own both
\* report success and leave the like row of the pair as it was before them;
\* at no point does the table hold more than one like row for a pair.
C30_ToggleInvolution ==
    /\ \A u \in Users, q \in LikedPosts : Cardinality(LikesOf(likes, u, q)) <= 1
    /\ \A c, d \in Calls :
          (/\ c # d
           /\ tog[c].pc = "returned" /\ tog[d].pc = "returned"
           /\ tog[c].userId = tog[d].userId /\ tog[c].postId = tog[d].postId
           /\ ~tog[c].faulted /\ ~tog[d].faulted
           /\ tog[c].order = 1)
          => /\ tog[c].success /\ tog[d].success
             /\ (LikesOf(likes, tog[c].userId, tog[c].postId) # {})
                = tog[c].likedBefore

=============================================================================
